---- MODULE Spec2Model ----
(***************************************************************************)
(* Model of the query compilation and paginated client-filtering engine   *)
(* of mcp-outlook: the pagination token codec (pagination-token.ts), the  *)
(* query compilers (query-builder.ts, client-filter.ts) and the search    *)
(* executor (search-execution.ts).                                        *)
(*                                                                         *)
(* Program strings are sequences of one-character strings, so that        *)
(* prefix tests, trimming, escaping, base64 and JSON work on characters.  *)
(***************************************************************************)
EXTENDS Integers, Sequences, FiniteSets, TLC

(***************************************************************************)
(* Characters and strings                                                  *)
(***************************************************************************)

\* JavaScript `undefined` for an optional string: a one-element tuple holding
\* a multi-character string, hence different from every program string.
Undefined == <<"undefined">>

\* A byte that is not printable ASCII, as it appears after utf8 decoding.
NonAscii == "non-ascii"

\* Printable ASCII, code 32 at index 1.
Ascii == <<" ","!","\"","#","$","%","&","'","(",")","*","+",",","-",".","/","0","1","2","3","4","5","6","7","8","9",":",";","<","=",">","?","@","A","B","C","D","E","F","G","H","I","J","K","L","M","N","O","P","Q","R","S","T","U","V","W","X","Y","Z","[","\\","]","^","_","backtick","a","b","c","d","e","f","g","h","i","j","k","l","m","n","o","p","q","r","s","t","u","v","w","x","y","z","{","|","}","~">>

\* the code of each printable character
OrdTable == [c \in {Ascii[i] : i \in 1..Len(Ascii)} |-> 31 + CHOOSE i \in 1..Len(Ascii) : Ascii[i] = c]

Ord(c) == OrdTable[c]

Chr(b) == IF b >= 32 /\ b <= 126 THEN Ascii[b - 31] ELSE NonAscii

Digits == {"0","1","2","3","4","5","6","7","8","9"}

DigitVal(c) == Ord(c) - 48

startsWith(s, prefix) ==
  /\ Len(s) >= Len(prefix)
  /\ SubSeq(s, 1, Len(prefix)) = prefix

slice(s, from) == SubSeq(s, from + 1, Len(s))

RECURSIVE trimStart(_)
trimStart(s) ==
  IF Len(s) > 0 /\ s[1] = " " THEN trimStart(Tail(s)) ELSE s

RECURSIVE trimEnd(_)
trimEnd(s) ==
  IF Len(s) > 0 /\ s[Len(s)] = " " THEN trimEnd(SubSeq(s, 1, Len(s) - 1)) ELSE s

trim(s) == trimEnd(trimStart(s))

replaceChar(s, from, to) == [i \in 1..Len(s) |-> IF s[i] = from THEN to ELSE s[i]]

RECURSIVE NatToStr(_)
NatToStr(n) ==
  IF n < 10 THEN <<Ascii[n + 17]>>
  ELSE NatToStr(n \div 10) \o <<Ascii[(n % 10) + 17]>>

(***************************************************************************)
(* base64: Buffer toString('base64') and Buffer.from(value, 'base64')     *)
(***************************************************************************)

B64 == <<"A","B","C","D","E","F","G","H","I","J","K","L","M","N","O","P","Q","R","S","T","U","V","W","X","Y","Z","a","b","c","d","e","f","g","h","i","j","k","l","m","n","o","p","q","r","s","t","u","v","w","x","y","z","0","1","2","3","4","5","6","7","8","9","+","/">>

\* the sextet of each character of the alphabet
B64Table == [c \in {B64[i] : i \in 1..64} |-> (CHOOSE i \in 1..64 : B64[i] = c) - 1]

B64Val(c) == B64Table[c]

\* the byte at 0-based position j, or 0 past the end
ByteAt(s, j) == IF j < Len(s) THEN Ord(s[j + 1]) ELSE 0

\* the 24 bits of the 0-based group g of three bytes
Group24(s, g) == ByteAt(s, 3 * g) * 65536 + ByteAt(s, 3 * g + 1) * 256 + ByteAt(s, 3 * g + 2)

\* the character at 0-based position q of group g: padding where no byte contributes
Base64Char(s, g, q, n) ==
  IF q = 0 THEN B64[(n \div 262144) + 1]
  ELSE IF q = 1 THEN B64[((n \div 4096) % 64) + 1]
  ELSE IF q = 2 THEN (IF 3 * g + 1 < Len(s) THEN B64[((n \div 64) % 64) + 1] ELSE "=")
  ELSE (IF 3 * g + 2 < Len(s) THEN B64[(n % 64) + 1] ELSE "=")

Base64Encode(s) ==
  [k \in 1..(4 * ((Len(s) + 2) \div 3)) |->
     Base64Char(s, (k - 1) \div 4, (k - 1) % 4, Group24(s, (k - 1) \div 4))]

\* the number of characters before the padding
DataLength(s) ==
  IF \E i \in 1..Len(s) : s[i] = "="
  THEN (CHOOSE i \in 1..Len(s) : s[i] = "=" /\ \A j \in 1..(i - 1) : s[j] # "=") - 1
  ELSE Len(s)

\* the byte that starts r bits into the sextet hi and ends in the sextet lo
ByteOf(r, hi, lo) ==
  IF r = 0 THEN hi * 4 + (lo \div 16)
  ELSE IF r = 2 THEN (hi % 16) * 16 + (lo \div 4)
  ELSE (hi % 4) * 64 + lo

\* Decoding stops at the padding; a trailing group of one sextet yields no byte.
Base64Decode(s) ==
  [j \in 1..((DataLength(s) * 6) \div 8) |->
     Chr(ByteOf((8 * (j - 1)) % 6,
                B64Val(s[((8 * (j - 1)) \div 6) + 1]),
                B64Val(s[((8 * (j - 1)) \div 6) + 2])))]

RECURSIVE stripPadding(_)
stripPadding(s) ==
  IF Len(s) > 0 /\ s[Len(s)] = "=" THEN stripPadding(SubSeq(s, 1, Len(s) - 1))
  ELSE s

base64UrlEncode(value) ==
  stripPadding(replaceChar(replaceChar(Base64Encode(value), "+", "-"), "/", "_"))

base64UrlDecode(value) ==
  LET padded == replaceChar(replaceChar(value, "-", "+"), "_", "/")
      padLength == (4 - (Len(padded) % 4)) % 4
      normalized == padded \o [i \in 1..padLength |-> "="]
  IN Base64Decode(normalized)

(***************************************************************************)
(* JSON.stringify and JSON.parse, for flat objects with string, number and *)
(* literal members and no insignificant white space                       *)
(***************************************************************************)

RECURSIVE JSONquoteChars(_)
JSONquoteChars(s) ==
  IF Len(s) = 0 THEN <<>>
  ELSE (IF s[1] \in {"\"", "\\"} THEN <<"\\", s[1]>> ELSE <<s[1]>>)
       \o JSONquoteChars(Tail(s))

JSONquote(s) == <<"\"">> \o JSONquoteChars(s) \o <<"\"">>

ParseFail == [ok |-> FALSE, pos |-> 0, val |-> [t |-> "none"]]

RECURSIVE ScanString(_, _, _)
ScanString(s, i, acc) ==
  IF i > Len(s) \/ s[i] = NonAscii THEN ParseFail
  ELSE IF s[i] = "\"" THEN [ok |-> TRUE, pos |-> i + 1, val |-> [t |-> "string", s |-> acc]]
  ELSE IF s[i] = "\\" THEN
    IF i + 1 <= Len(s) /\ s[i + 1] \in {"\"", "\\", "/"}
    THEN ScanString(s, i + 2, Append(acc, s[i + 1]))
    ELSE ParseFail
  ELSE ScanString(s, i + 1, Append(acc, s[i]))

RECURSIVE ScanDigits(_, _, _)
ScanDigits(s, i, acc) ==
  IF i <= Len(s) /\ s[i] \in Digits THEN ScanDigits(s, i + 1, Append(acc, DigitVal(s[i])))
  ELSE [pos |-> i, digits |-> acc]

RECURSIVE DigitsToNat(_)
DigitsToNat(ds) ==
  IF Len(ds) = 0 THEN 0
  ELSE DigitsToNat(SubSeq(ds, 1, Len(ds) - 1)) * 10 + ds[Len(ds)]

\* the number whose integer digits are ip and whose fraction, if any, is fp
NumberFrom(neg, hasFrac, ip, fp) ==
  IF Len(ip.digits) = 0 THEN ParseFail
  ELSE IF Len(ip.digits) > 1 /\ ip.digits[1] = 0 THEN ParseFail
  ELSE IF hasFrac /\ Len(fp.digits) = 0 THEN ParseFail
  ELSE [ok |-> TRUE, pos |-> fp.pos,
        val |-> [t |-> "number", neg |-> neg, int |-> DigitsToNat(ip.digits),
                 frac |-> fp.digits]]

FractionFrom(s, neg, ip, hasFrac) ==
  NumberFrom(neg, hasFrac, ip,
             IF hasFrac THEN ScanDigits(s, ip.pos + 1, <<>>)
             ELSE [pos |-> ip.pos, digits |-> <<>>])

IntegerFrom(s, neg, ip) ==
  FractionFrom(s, neg, ip, ip.pos <= Len(s) /\ s[ip.pos] = ".")

SignedFrom(s, i, neg) ==
  IntegerFrom(s, neg, ScanDigits(s, IF neg THEN i + 1 ELSE i, <<>>))

ParseNumber(s, i) == SignedFrom(s, i, i <= Len(s) /\ s[i] = "-")

ParseLiteral(s, i, word) ==
  IF i + Len(word) - 1 <= Len(s) /\ SubSeq(s, i, i + Len(word) - 1) = word
  THEN [ok |-> TRUE, pos |-> i + Len(word), val |-> [t |-> "literal", name |-> word]]
  ELSE ParseFail

ParseScalar(s, i) ==
  IF i > Len(s) THEN ParseFail
  ELSE IF s[i] = "\"" THEN ScanString(s, i + 1, <<>>)
  ELSE IF s[i] = "-" \/ s[i] \in Digits THEN ParseNumber(s, i)
  ELSE IF s[i] = "t" THEN ParseLiteral(s, i, <<"t","r","u","e">>)
  ELSE IF s[i] = "f" THEN ParseLiteral(s, i, <<"f","a","l","s","e">>)
  ELSE IF s[i] = "n" THEN ParseLiteral(s, i, <<"n","u","l","l">>)
  ELSE ParseFail

\* members after the opening brace; a later duplicate key overrides
RECURSIVE ParseMembers(_, _, _)
MemberEnd(s, pos, acc2) ==
  IF s[pos] = "}"
  THEN [ok |-> TRUE, pos |-> pos + 1, val |-> [t |-> "object", members |-> acc2]]
  ELSE IF s[pos] = "," THEN ParseMembers(s, pos + 1, acc2)
  ELSE ParseFail

MemberValue(s, key, v, acc) ==
  IF ~v.ok \/ v.pos > Len(s) THEN ParseFail
  ELSE MemberEnd(s, v.pos, (key :> v.val) @@ acc)

MemberKey(s, k, acc) ==
  IF ~k.ok \/ k.pos > Len(s) \/ s[k.pos] # ":" THEN ParseFail
  ELSE MemberValue(s, k.val.s, ParseScalar(s, k.pos + 1), acc)

ParseMembers(s, i, acc) ==
  IF i > Len(s) \/ s[i] # "\"" THEN ParseFail
  ELSE MemberKey(s, ScanString(s, i + 1, <<>>), acc)

ParseValue(s, i) ==
  IF i <= Len(s) /\ s[i] = "{" THEN
    IF i + 1 <= Len(s) /\ s[i + 1] = "}"
    THEN [ok |-> TRUE, pos |-> i + 2, val |-> [t |-> "object", members |-> <<>>]]
    ELSE ParseMembers(s, i + 1, <<>>)
  ELSE ParseScalar(s, i)

\* JSON.parse: the parsed value, or t = "SyntaxError" when it throws
Complete(s, r) ==
  IF r.ok /\ r.pos = Len(s) + 1 THEN r.val ELSE [t |-> "SyntaxError"]

JSONparse(s) == Complete(s, ParseValue(s, 1))

\* property access parsed[key]: t = "undefined" when absent, "TypeError" on null
Member(parsed, key) ==
  IF parsed.t = "object" THEN
    IF key \in DOMAIN parsed.members THEN parsed.members[key] ELSE [t |-> "undefined"]
  ELSE IF parsed.t = "literal" /\ parsed.name = <<"n","u","l","l">> THEN [t |-> "TypeError"]
  ELSE [t |-> "undefined"]

NumberIsInteger(v) == \A k \in 1..Len(v.frac) : v.frac[k] = 0

NumberValue(v) == IF v.neg THEN 0 - v.int ELSE v.int

(***************************************************************************)
(* pagination-token.ts                                                     *)
(***************************************************************************)

PREFIX == <<"v","2",":">>

FIRST_PAGE_SKIP_TOKEN == <<"_","_","m","c","p","_","o","u","t","l","o","o","k","_","f","i","r","s","t","_","p","a","g","e","_","_">>

\* JSON.stringify(payload) of the V2Payload object literal, keys in insertion order
V2PayloadJson(skipToken, offset, hasMode, mode) ==
  <<"{","\"","v","\"",":","2",",","\"","s","k","i","p","T","o","k","e","n","\"",":">>
  \o JSONquote(skipToken)
  \o <<",","\"","o","f","f","s","e","t","\"",":">> \o NatToStr(offset)
  \o (IF hasMode THEN <<",","\"","m","o","d","e","\"",":">> \o JSONquote(mode) ELSE <<>>)
  \o <<"}">>

\* mutant: the mode is never written to the payload
encodeNextPageToken_DropMode(params) ==
  LET sanitizedOffset == IF params.offset < 0 THEN 0 ELSE params.offset
      skipToken == IF params.skipToken = Undefined THEN FIRST_PAGE_SKIP_TOKEN
                   ELSE params.skipToken
      serialized == V2PayloadJson(skipToken, sanitizedOffset, FALSE, params.mode)
  IN PREFIX \o base64UrlEncode(serialized)

\* params.offset is an integer here, so Math.trunc leaves it unchanged
encodeNextPageToken(params) ==
  LET sanitizedOffset == IF params.offset < 0 THEN 0 ELSE params.offset
      skipToken == IF params.skipToken = Undefined THEN FIRST_PAGE_SKIP_TOKEN
                   ELSE params.skipToken
      hasMode == params.mode # Undefined /\ Len(params.mode) > 0
      serialized == V2PayloadJson(skipToken, sanitizedOffset, hasMode, params.mode)
  IN PREFIX \o base64UrlEncode(serialized)

Thrown == [thrown |-> TRUE]

LegacyResult(token) ==
  [skipToken |-> token, offset |-> 0, mode |-> Undefined, legacy |-> TRUE]

\* the checks of the try block on the members of the payload
decodeMembers(v, skipTokenRaw, offsetRaw, modeRaw) ==
  IF v.t = "TypeError" THEN Thrown
  ELSE IF ~(v.t = "number" /\ NumberIsInteger(v) /\ NumberValue(v) = 2) THEN Thrown
  ELSE IF skipTokenRaw.t # "string" THEN Thrown
  ELSE IF trim(skipTokenRaw.s) = <<>> THEN Thrown
  ELSE IF offsetRaw.t # "number" THEN Thrown
  ELSE IF ~NumberIsInteger(offsetRaw) \/ NumberValue(offsetRaw) < 0 THEN Thrown
  ELSE [skipToken |-> IF skipTokenRaw.s = FIRST_PAGE_SKIP_TOKEN THEN Undefined
                      ELSE skipTokenRaw.s,
        offset |-> NumberValue(offsetRaw),
        mode |-> IF modeRaw.t = "string" THEN modeRaw.s ELSE Undefined,
        legacy |-> FALSE]

decodeParsed(parsed) ==
  IF parsed.t = "SyntaxError" THEN Thrown
  ELSE decodeMembers(Member(parsed, <<"v">>),
                     Member(parsed, <<"s","k","i","p","T","o","k","e","n">>),
                     Member(parsed, <<"o","f","f","s","e","t">>),
                     Member(parsed, <<"m","o","d","e">>))

\* the body of the try block: the result, or Thrown
decodeV2Body(token) ==
  decodeParsed(JSONparse(base64UrlDecode(slice(token, Len(PREFIX)))))

\* mutant: the try block without its catch clause
decodeNextPageToken_NoCatch(token) ==
  IF token = Undefined \/ token = <<>> THEN
    [skipToken |-> Undefined, offset |-> 0, mode |-> Undefined, legacy |-> TRUE]
  ELSE IF ~startsWith(token, PREFIX) THEN LegacyResult(token)
  ELSE decodeV2Body(token)

CatchLegacy(token, r) == IF r = Thrown THEN LegacyResult(token) ELSE r

decodeNextPageToken(token) ==
  IF token = Undefined \/ token = <<>> THEN
    [skipToken |-> Undefined, offset |-> 0, mode |-> Undefined, legacy |-> TRUE]
  ELSE IF ~startsWith(token, PREFIX) THEN LegacyResult(token)
  ELSE CatchLegacy(token, decodeV2Body(token))


(***************************************************************************)
(* More string helpers                                                     *)
(***************************************************************************)

\* the value thrown by a string-valued function that raises an Error
ThrowStr == <<"throw">>

RECURSIVE Join(_, _)
Join(parts, sep) ==
  IF Len(parts) = 0 THEN <<>>
  ELSE IF Len(parts) = 1 THEN parts[1]
  ELSE parts[1] \o sep \o Join(Tail(parts), sep)

includes(s, sub) ==
  \E i \in 1..(Len(s) - Len(sub) + 1) : SubSeq(s, i, i + Len(sub) - 1) = sub

isUpper(c) == c \in {"A","B","C","D","E","F","G","H","I","J","K","L","M","N","O","P","Q","R","S","T","U","V","W","X","Y","Z"}

isLetter(c) == isUpper(c) \/ c \in {"a","b","c","d","e","f","g","h","i","j","k","l","m","n","o","p","q","r","s","t","u","v","w","x","y","z"}

toLowerCase(s) == [i \in 1..Len(s) |-> IF isUpper(s[i]) THEN Chr(Ord(s[i]) + 32) ELSE s[i]]

\* value.replace(/'/g, "''")
RECURSIVE doubleQuotes(_)
doubleQuotes(s) ==
  IF Len(s) = 0 THEN <<>>
  ELSE (IF s[1] = "'" THEN <<"'", "'">> ELSE <<s[1]>>) \o doubleQuotes(Tail(s))

AnyThrown(parts) == \E i \in 1..Len(parts) : parts[i] = ThrowStr

NonEmpty(s) == s # <<>>

NonBlank(s) == s # <<>> /\ trim(s) # <<>>

(***************************************************************************)
(* The query model (outlook-query-schema.ts).  A node is a record that     *)
(* carries the keys that are present.  A field value is [s |-> string] or  *)
(* a field operator, a record with some of the keys any, all, none         *)
(* ($any, $all, $none), each a sequence of strings.  The logical keys      *)
(* $and, $or, $not are the record fields and, or, not.                     *)
(***************************************************************************)

Has(n, k) == k \in DOMAIN n

isString(v) == "s" \in DOMAIN v

\* JavaScript truthiness of string | FieldOperator
TruthyField(n, k) == Has(n, k) /\ (isString(n[k]) => Len(n[k].s) > 0)

TruthyStr(n, k) == Has(n, k) /\ Len(n[k]) > 0

(***************************************************************************)
(* query-builder.ts                                                        *)
(***************************************************************************)

OUTLOOK_CATEGORIES ==
  (<<"p","e","r","s","o","n","a","l">> :> <<"P","e","r","s","o","n","a","l">>) @@ (<<"w","o","r","k">> :> <<"W","o","r","k">>) @@ (<<"f","a","m","i","l","y">> :> <<"F","a","m","i","l","y">>)
  @@ (<<"t","r","a","v","e","l">> :> <<"T","r","a","v","e","l">>) @@ (<<"i","m","p","o","r","t","a","n","t">> :> <<"I","m","p","o","r","t","a","n","t">>) @@ (<<"u","r","g","e","n","t">> :> <<"U","r","g","e","n","t">>)

\* mutant: the category is looked up without trimming and lower-casing
mapOutlookCategory_Raw(category) ==
  IF category = <<>> THEN ThrowStr
  ELSE IF category \in DOMAIN OUTLOOK_CATEGORIES THEN OUTLOOK_CATEGORIES[category]
  ELSE ThrowStr

\* what every object literal inherits from Object.prototype, by property
\* name, each value given by its String() text
ObjectPrototype ==
  (<<"c","o","n","s","t","r","u","c","t","o","r">> :> <<"f","u","n","c","t","i","o","n"," ","O","b","j","e","c","t","(",")"," ","{"," ","[","n","a","t","i","v","e"," ","c","o","d","e","]"," ","}">>)
  @@ (<<"_","_","p","r","o","t","o","_","_">> :> <<"[","o","b","j","e","c","t"," ","O","b","j","e","c","t","]">>)
  @@ (<<"t","o","S","t","r","i","n","g">> :> <<"f","u","n","c","t","i","o","n"," ","t","o","S","t","r","i","n","g","(",")"," ","{"," ","[","n","a","t","i","v","e"," ","c","o","d","e","]"," ","}">>)
  @@ (<<"v","a","l","u","e","O","f">> :> <<"f","u","n","c","t","i","o","n"," ","v","a","l","u","e","O","f","(",")"," ","{"," ","[","n","a","t","i","v","e"," ","c","o","d","e","]"," ","}">>)
  @@ (<<"h","a","s","O","w","n","P","r","o","p","e","r","t","y">> :> <<"f","u","n","c","t","i","o","n"," ","h","a","s","O","w","n","P","r","o","p","e","r","t","y","(",")"," ","{"," ","[","n","a","t","i","v","e"," ","c","o","d","e","]"," ","}">>)

\* OUTLOOK_CATEGORIES[key]: an own property, else an inherited one, else undefined
CategoryProperty(key) ==
  IF key \in DOMAIN OUTLOOK_CATEGORIES THEN OUTLOOK_CATEGORIES[key]
  ELSE IF key \in DOMAIN ObjectPrototype THEN ObjectPrototype[key]
  ELSE Undefined

mapOutlookCategory(category) ==
  IF category = <<>> THEN ThrowStr
  ELSE LET trimmed == trim(category)
           normalizedCategory == toLowerCase(trimmed)
           systemCategory == CategoryProperty(normalizedCategory)
       IN IF trimmed = <<>> THEN ThrowStr
          ELSE IF systemCategory = Undefined THEN ThrowStr
          ELSE systemCategory

L(s) == s

p(s) == <<"(">> \o s \o <<")">>

recip(coll, V) ==
  LET left == <<"r","/","e","m","a","i","l","A","d","d","r","e","s","s","/","a","d","d","r","e","s","s"," ","e","q"," ">> \o V
      right == <<"r","/","e","m","a","i","l","A","d","d","r","e","s","s","/","n","a","m","e"," ","e","q"," ">> \o V
  IN coll \o <<"/","a","n","y","(","r",":"," ">> \o left \o <<" ","o","r"," ">> \o right \o <<")">>

fv(field, rawStr) ==
  IF field \in {"text", "body"} THEN
    IF trim(rawStr) = <<>> THEN ThrowStr ELSE <<>>
  ELSE IF trim(rawStr) = <<>> THEN ThrowStr
  ELSE
    LET V == <<"'">> \o doubleQuotes(toLowerCase(rawStr)) \o <<"'">>
    IN CASE field = "from" ->
              IF includes(rawStr, <<"@">>)
              THEN LET addrEq == L(<<"f","r","o","m","/","e","m","a","i","l","A","d","d","r","e","s","s","/","a","d","d","r","e","s","s">>) \o <<" ","e","q"," ">> \o V
                       nameEq == L(<<"f","r","o","m","/","e","m","a","i","l","A","d","d","r","e","s","s","/","n","a","m","e">>) \o <<" ","e","q"," ">> \o V
                   IN p(addrEq \o <<" ","o","r"," ">> \o nameEq)
              ELSE <<>>
         [] field = "to" -> recip(<<"t","o","R","e","c","i","p","i","e","n","t","s">>, V)
         [] field = "cc" -> recip(<<"c","c","R","e","c","i","p","i","e","n","t","s">>, V)
         [] field = "bcc" -> recip(<<"b","c","c","R","e","c","i","p","i","e","n","t","s">>, V)
         [] field = "subject" ->
              IF includes(rawStr, <<"-">>) \/ Len(rawStr) < 3 THEN <<>>
              ELSE <<"s","t","a","r","t","s","w","i","t","h","(","s","u","b","j","e","c","t",","," ">> \o V \o <<")">>
         [] field = "categories" ->
              LET systemCategory == mapOutlookCategory(rawStr)
              IN IF systemCategory = ThrowStr THEN ThrowStr
                 ELSE <<"c","a","t","e","g","o","r","i","e","s","/","a","n","y","(","c",":"," ","c"," ","e","q"," ","'">> \o systemCategory \o <<"'",")">>
         [] field = "label" ->
              <<"c","a","t","e","g","o","r","i","e","s","/","a","n","y","(","c",":"," ","c"," ","e","q"," ","'">> \o doubleQuotes(rawStr) \o <<"'",")">>
         [] OTHER -> <<>>

chain(op, arr) ==
  IF Len(arr) = 0 THEN ThrowStr
  ELSE IF Len(arr) = 1 THEN arr[1]
  ELSE p(Join(arr, <<" ">> \o op \o <<" ">>))

\* results.filter((s) => s && s.trim())
validResultsOf(results) == SelectSeq(results, NonBlank)

fieldExpr(field, op) ==
  IF isString(op) THEN fv(field, op.s)
  ELSE IF Has(op, "any") THEN
    LET results == [i \in 1..Len(op.any) |-> fv(field, op.any[i])]
        validResults == validResultsOf(results)
    IN IF AnyThrown(results) THEN ThrowStr
       ELSE IF Len(validResults) = 0 THEN <<>>
       ELSE chain(<<"o","r">>, validResults)
  ELSE IF Has(op, "all") THEN
    LET results == [i \in 1..Len(op.all) |-> fv(field, op.all[i])]
        validResults == validResultsOf(results)
    IN IF AnyThrown(results) THEN ThrowStr
       ELSE IF Len(validResults) = 0 THEN <<>>
       ELSE chain(<<"a","n","d">>, validResults)
  ELSE IF Has(op, "none") THEN
    LET results == [i \in 1..Len(op.none) |-> fv(field, op.none[i])]
        validResults == validResultsOf(results)
    IN IF AnyThrown(results) THEN ThrowStr
       ELSE IF Len(validResults) = 0 THEN <<>>
       ELSE <<"n","o","t"," ">> \o p(chain(<<"o","r">>, validResults))
  ELSE ThrowStr

\* d is a record with some of the keys gte, lt ($gte, $lt), each a date string
dateExpr(d) ==
  LET parts == (IF TruthyStr(d, "gte")
                THEN <<<<"r","e","c","e","i","v","e","d","D","a","t","e","T","i","m","e"," ","g","e"," ">> \o d.gte \o <<"T","0","0",":","0","0",":","0","0","Z">>>> ELSE <<>>)
               \o (IF TruthyStr(d, "lt")
                   THEN <<<<"r","e","c","e","i","v","e","d","D","a","t","e","T","i","m","e"," ","l","t"," ">> \o d.lt \o <<"T","0","0",":","0","0",":","0","0","Z">>>> ELSE <<>>)
  IN IF Len(parts) > 1 THEN p(Join(parts, <<" ","a","n","d"," ">>))
     ELSE IF Len(parts) = 1 THEN parts[1]
     ELSE <<>>

FieldKeys == {"from", "to", "cc", "bcc", "subject", "text", "body", "categories", "label"}

RECURSIVE emit(_)
emit(n) ==
  IF Has(n, "and") THEN
    LET parts == [i \in 1..Len(n.and) |-> emit(n.and[i])]
        andParts == SelectSeq(parts, NonEmpty)
    IN IF AnyThrown(parts) THEN ThrowStr
       ELSE IF Len(andParts) = 0 THEN <<>>
       ELSE IF Len(andParts) = 1 THEN andParts[1]
       ELSE p(Join(andParts, <<" ","a","n","d"," ">>))
  ELSE IF Has(n, "or") THEN
    LET parts == [i \in 1..Len(n.or) |-> emit(n.or[i])]
        orParts == SelectSeq(parts, NonEmpty)
    IN IF AnyThrown(parts) THEN ThrowStr
       ELSE IF Len(orParts) = 0 THEN <<>>
       ELSE IF Len(orParts) = 1 THEN orParts[1]
       ELSE p(Join(orParts, <<" ","o","r"," ">>))
  ELSE IF Has(n, "not") THEN
    LET notExpr == emit(n.not)
    IN IF notExpr = ThrowStr THEN ThrowStr
       ELSE IF notExpr # <<>> THEN <<"n","o","t"," ","(">> \o notExpr \o <<")">>
       ELSE <<>>
  ELSE IF Has(n, "hasAttachment") /\ n.hasAttachment THEN <<"h","a","s","A","t","t","a","c","h","m","e","n","t","s"," ","e","q"," ","t","r","u","e">>
  ELSE IF Has(n, "date") THEN dateExpr(n.date)
  ELSE IF Cardinality(DOMAIN n) = 1 THEN
    LET k0 == CHOOSE k \in DOMAIN n : TRUE
    IN IF k0 \in FieldKeys /\ TruthyField(n, k0) THEN fieldExpr(k0, n[k0]) ELSE <<>>
  ELSE <<>>

buildQueryFilter(query) == emit(query)

RECURSIVE hasFullTextIntent(_)
hasFullTextIntent(node) ==
  IF TruthyStr(node, "kqlQuery") THEN TRUE
  ELSE IF TruthyStr(node, "exactPhrase") THEN TRUE
  ELSE IF TruthyField(node, "subject") THEN TRUE
  ELSE IF TruthyField(node, "text") THEN TRUE
  ELSE IF TruthyField(node, "body") THEN TRUE
  ELSE IF Has(node, "and") THEN \E i \in 1..Len(node.and) : hasFullTextIntent(node.and[i])
  ELSE IF Has(node, "or") THEN \E i \in 1..Len(node.or) : hasFullTextIntent(node.or[i])
  ELSE IF Has(node, "not") THEN hasFullTextIntent(node.not)
  ELSE FALSE

KQLSpecial == {"\\", ":", "(", ")", "{", "}", "[", "]", "\"", "*", "?", "<", ">", "_"}

\* the chain of replace() calls: each special character gets one backslash
RECURSIVE escapeKQL(_)
escapeKQL(value) ==
  IF Len(value) = 0 THEN <<>>
  ELSE (IF value[1] \in KQLSpecial THEN <<"\\", value[1]>> ELSE <<value[1]>>)
       \o escapeKQL(Tail(value))

buildClause(value) ==
  LET trimmed == trim(value)
      escaped == escapeKQL(trimmed)
      shouldQuote == \E i \in 1..Len(trimmed) : ~isLetter(trimmed[i])
  IN IF trimmed = <<>> THEN <<>>
     ELSE IF shouldQuote THEN <<"\"">> \o escaped \o <<"\"">>
     ELSE escaped

clausesOf(values) == SelectSeq([i \in 1..Len(values) |-> buildClause(values[i])], NonEmpty)

\* the terms pushed by pushAnyTerms(values)
pushAnyTerms(values) ==
  LET clauses == clausesOf(values)
  IN IF Len(clauses) = 0 THEN <<>>
     ELSE IF Len(clauses) = 1 THEN <<clauses[1]>>
     ELSE <<<<"(">> \o Join(clauses, <<" ","O","R"," ">>) \o <<")">>>>

pushAllTerms(values) ==
  LET clauses == clausesOf(values)
  IN IF Len(clauses) = 0 THEN <<>>
     ELSE IF Len(clauses) = 1 THEN <<clauses[1]>>
     ELSE <<<<"(">> \o Join(clauses, <<" ","A","N","D"," ">>) \o <<")">>>>

pushExactPhrase(value) ==
  IF trim(value) = <<>> THEN <<>>
  ELSE pushAnyTerms(<<<<"\"">> \o value \o <<"\"">>>>)

\* the terms pushed by pushOperatorTerms(node[k])
pushOperatorTerms(node, k) ==
  IF ~TruthyField(node, k) THEN <<>>
  ELSE IF isString(node[k]) THEN
    (IF buildClause(node[k].s) # <<>> THEN <<buildClause(node[k].s)>> ELSE <<>>)
  ELSE
    (IF Has(node[k], "any") /\ Len(node[k].any) > 0 THEN pushAnyTerms(node[k].any) ELSE <<>>)
    \o (IF Has(node[k], "all") /\ Len(node[k].all) > 0 THEN pushAllTerms(node[k].all) ELSE <<>>)
    \o (IF Has(node[k], "none") /\ Len(node[k].none) > 0
        THEN LET clauses == clausesOf(node[k].none)
             IN IF Len(clauses) = 1 THEN <<<<"N","O","T"," ">> \o clauses[1]>>
                ELSE IF Len(clauses) > 1
                     THEN <<<<"N","O","T"," ","(">> \o Join(clauses, <<" ","O","R"," ">>) \o <<")">>>>
                     ELSE <<>>
        ELSE <<>>)

RECURSIVE ConcatAll(_)
ConcatAll(seqs) ==
  IF Len(seqs) = 0 THEN <<>> ELSE seqs[1] \o ConcatAll(Tail(seqs))

\* collectSearchTerms(query).terms
RECURSIVE walkNode(_)
walkNode(node) ==
  IF Has(node, "and") THEN ConcatAll([i \in 1..Len(node.and) |-> walkNode(node.and[i])])
  ELSE IF Has(node, "or") THEN ConcatAll([i \in 1..Len(node.or) |-> walkNode(node.or[i])])
  ELSE IF Has(node, "not") THEN walkNode(node.not)
  ELSE (IF TruthyStr(node, "exactPhrase") THEN pushExactPhrase(node.exactPhrase) ELSE <<>>)
       \o pushOperatorTerms(node, "subject")
       \o (IF TruthyField(node, "text") THEN pushOperatorTerms(node, "text") ELSE <<>>)
       \o (IF TruthyField(node, "body") THEN pushOperatorTerms(node, "body") ELSE <<>>)

\* collectSearchTerms(query).usesText / usesBody
RECURSIVE usesField(_, _)
usesField(node, k) ==
  IF Has(node, "and") THEN \E i \in 1..Len(node.and) : usesField(node.and[i], k)
  ELSE IF Has(node, "or") THEN \E i \in 1..Len(node.or) : usesField(node.or[i], k)
  ELSE IF Has(node, "not") THEN usesField(node.not, k)
  ELSE TruthyField(node, k)

\* JavaScript null for search and filter
Null == <<"null">>

ThrownPlan == [thrown |-> TRUE]

\* mutant: the structural filter is kept next to the search expression
toGraphFilter_KeepFilter(query) ==
  IF TruthyStr(query, "kqlQuery") THEN
    [search |-> query.kqlQuery, filter |-> Null, requireBodyClientFilter |-> FALSE,
     hasFullText |-> TRUE]
  ELSE
    LET filterStr == buildQueryFilter(query)
        cleanedFilter == IF filterStr # <<>> /\ trim(filterStr) # <<>> THEN trim(filterStr) ELSE Null
        terms == walkNode(query)
    IN IF filterStr = ThrowStr THEN ThrownPlan
       ELSE [search |-> IF hasFullTextIntent(query) /\ Len(terms) > 0
                        THEN Join(terms, <<" ","O","R"," ">>) ELSE Null,
             filter |-> cleanedFilter,
             requireBodyClientFilter |-> hasFullTextIntent(query)
                                         /\ (usesField(query, "body") \/ usesField(query, "text")),
             hasFullText |-> hasFullTextIntent(query)]

toGraphFilter(query) ==
  IF TruthyStr(query, "kqlQuery") THEN
    [search |-> query.kqlQuery, filter |-> Null, requireBodyClientFilter |-> FALSE,
     hasFullText |-> TRUE]
  ELSE IF hasFullTextIntent(query) THEN
    LET terms == walkNode(query)
    IN [search |-> IF Len(terms) > 0 THEN Join(terms, <<" ","O","R"," ">>) ELSE Null,
        filter |-> Null,
        requireBodyClientFilter |-> usesField(query, "body") \/ usesField(query, "text"),
        hasFullText |-> TRUE]
  ELSE
    LET filterStr == buildQueryFilter(query)
        cleanedFilter == IF filterStr # <<>> /\ trim(filterStr) # <<>> THEN trim(filterStr) ELSE Null
    IN IF filterStr = ThrowStr THEN ThrownPlan
       ELSE [search |-> Null, filter |-> cleanedFilter, requireBodyClientFilter |-> FALSE,
             hasFullText |-> FALSE]


(***************************************************************************)
(* client-filter.ts.  A message is a record that carries the attributes    *)
(* the remote returned; an address is [address |-> string, name |-> string]*)
(***************************************************************************)

\* input.replace(/\s+/g, ' ')
RECURSIVE collapseSpaces(_)
collapseSpaces(s) ==
  IF Len(s) = 0 THEN <<>>
  ELSE IF s[1] = " " /\ Len(s) > 1 /\ s[2] = " " THEN collapseSpaces(Tail(s))
  ELSE <<s[1]>> \o collapseSpaces(Tail(s))

\* null is the empty string here: the code returns null exactly for ''
normalizeTerm(input) == toLowerCase(trim(collapseSpaces(input)))

normalizeLabelTerm(input) == trim(input)

\* normalizeForMatch(message[k]) with message[k] possibly undefined
normalizeForMatch(message, k) ==
  IF Has(message, k) THEN normalizeTerm(message[k]) ELSE <<>>

getTextSources(message) ==
  <<normalizeForMatch(message, "subject"), normalizeForMatch(message, "body"),
    normalizeForMatch(message, "bodyPreview")>>

evaluateOperator(value, matcher(_), normalizeFn(_)) ==
  IF isString(value) THEN
    LET normalized == normalizeFn(value.s)
    IN normalized # <<>> /\ matcher(normalized)
  ELSE
    LET anyOn == Has(value, "any") /\ Len(value.any) > 0
        allOn == Has(value, "all") /\ Len(value.all) > 0
        noneOn == Has(value, "none") /\ Len(value.none) > 0
        termsOf(arr) == SelectSeq([i \in 1..Len(arr) |-> normalizeFn(arr[i])], NonEmpty)
    IN IF anyOn /\ (Len(termsOf(value.any)) = 0
                    \/ ~\E i \in 1..Len(termsOf(value.any)) : matcher(termsOf(value.any)[i]))
       THEN FALSE
       ELSE IF allOn /\ (Len(termsOf(value.all)) = 0
                         \/ ~\A i \in 1..Len(termsOf(value.all)) : matcher(termsOf(value.all)[i]))
       THEN FALSE
       ELSE IF noneOn /\ \E i \in 1..Len(termsOf(value.none)) : matcher(termsOf(value.none)[i])
       THEN FALSE
       ELSE anyOn \/ allOn \/ noneOn

matchesSubject(message, value) ==
  LET normalizedSubject == normalizeForMatch(message, "subject")
  IN evaluateOperator(value, LAMBDA term : includes(normalizedSubject, term), normalizeTerm)

matchesText(message, value) ==
  LET textSources == getTextSources(message)
  IN evaluateOperator(value,
       LAMBDA term : \E i \in 1..Len(textSources) : includes(textSources[i], term),
       normalizeTerm)

matchesBody(message, value) ==
  LET bodyContent == normalizeForMatch(message, "body")
  IN evaluateOperator(value, LAMBDA term : includes(bodyContent, term), normalizeTerm)

matchesExactPhrase(message, phrase) ==
  LET normalizedPhrase == normalizeTerm(phrase)
      textSources == getTextSources(message)
  IN IF normalizedPhrase = <<>> THEN FALSE
     ELSE \E i \in 1..Len(textSources) : includes(textSources[i], normalizedPhrase)

normalizeAddress(recipient) ==
  [address |-> normalizeTerm(recipient.address), name |-> normalizeTerm(recipient.name)]

NoAddress == [address |-> <<>>, name |-> <<>>]

matchesAddressField(addressData, value) ==
  evaluateOperator(value,
    LAMBDA term : includes(addressData.address, term) \/ includes(addressData.name, term),
    normalizeTerm)

\* recipients is message[k] ?? []
matchesRecipientField(message, k, value) ==
  LET recipients == IF Has(message, k) THEN message[k] ELSE <<>>
      normalizedRecipients == [i \in 1..Len(recipients) |-> normalizeAddress(recipients[i])]
  IN evaluateOperator(value,
       LAMBDA term : \E i \in 1..Len(normalizedRecipients) :
                        \/ includes(normalizedRecipients[i].address, term)
                        \/ includes(normalizedRecipients[i].name, term),
       normalizeTerm)

SeqIncludes(seq, x) == \E i \in 1..Len(seq) : seq[i] = x

\* mutant: a term that mapOutlookCategory throws for counts as a match
matchesCategoryField_ThrowMatches(message, value) ==
  LET categories == IF Has(message, "categories") THEN message.categories ELSE <<>>
  IN evaluateOperator(value,
       LAMBDA term : LET mappedTerm == mapOutlookCategory(term)
                     IN IF mappedTerm = ThrowStr THEN TRUE
                        ELSE SeqIncludes(categories, mappedTerm),
       normalizeTerm)

\* categories is message.categories ?? []
matchesCategoryField(message, value) ==
  LET categories == IF Has(message, "categories") THEN message.categories ELSE <<>>
  IN evaluateOperator(value,
       LAMBDA term : LET mappedTerm == mapOutlookCategory(term)
                     IN IF mappedTerm = ThrowStr THEN FALSE
                        ELSE SeqIncludes(categories, mappedTerm),
       normalizeTerm)

matchesLabelField(message, value) ==
  LET categories == IF Has(message, "categories") THEN message.categories ELSE <<>>
  IN evaluateOperator(value, LAMBDA term : SeqIncludes(categories, term), normalizeLabelTerm)

NaN == 0 - 1

Num2(s, i) == DigitVal(s[i]) * 10 + DigitVal(s[i + 1])

\* Date.parse of 'YYYY-MM-DDTHH:MM:SSZ': seconds since 1970 on a scale that
\* keeps the order of valid dates (months of 31 days); NaN for any other text
DateParse(s) ==
  IF /\ Len(s) = 20
     /\ \A i \in {1,2,3,4,6,7,9,10,12,13,15,16,18,19} : s[i] \in Digits
     /\ s[5] = "-" /\ s[8] = "-" /\ s[11] = "T" /\ s[14] = ":" /\ s[17] = ":" /\ s[20] = "Z"
     /\ Num2(s, 6) \in 1..12 /\ Num2(s, 9) \in 1..31
     /\ Num2(s, 12) < 24 /\ Num2(s, 15) < 60 /\ Num2(s, 18) < 60
  THEN (((Num2(s, 1) * 100 + Num2(s, 3) - 1970) * 12 + (Num2(s, 6) - 1)) * 31 + (Num2(s, 9) - 1)) * 86400
       + Num2(s, 12) * 3600 + Num2(s, 15) * 60 + Num2(s, 18)
  ELSE NaN

matchesDate(message, d) ==
  IF ~Has(message, "receivedDateTime") \/ message.receivedDateTime = <<>> THEN FALSE
  ELSE LET receivedTs == DateParse(message.receivedDateTime)
           start == IF TruthyStr(d, "gte") THEN DateParse(d.gte \o <<"T","0","0",":","0","0",":","0","0","Z">>) ELSE 0
           end == IF TruthyStr(d, "lt") THEN DateParse(d.lt \o <<"T","0","0",":","0","0",":","0","0","Z">>) ELSE 0
       IN IF receivedTs = NaN THEN FALSE
          ELSE IF TruthyStr(d, "gte") /\ (start = NaN \/ receivedTs < start) THEN FALSE
          ELSE IF TruthyStr(d, "lt") /\ (end = NaN \/ receivedTs >= end) THEN FALSE
          ELSE TRUE

\* buildNodePredicate(node)(message)
RECURSIVE buildNodePredicate(_, _)
buildNodePredicate(node, message) ==
  IF Has(node, "and") THEN \A i \in 1..Len(node.and) : buildNodePredicate(node.and[i], message)
  ELSE IF Has(node, "or") THEN \E i \in 1..Len(node.or) : buildNodePredicate(node.or[i], message)
  ELSE IF Has(node, "not") THEN ~buildNodePredicate(node.not, message)
  ELSE
    /\ Has(node, "hasAttachment") =>
         Has(message, "hasAttachments") /\ message.hasAttachments = node.hasAttachment
    /\ Has(node, "isRead") => Has(message, "isRead") /\ message.isRead = node.isRead
    /\ TruthyStr(node, "importance") =>
         Has(message, "importance")
         /\ toLowerCase(message.importance) = toLowerCase(node.importance)
    /\ Has(node, "date") => matchesDate(message, node.date)
    /\ TruthyField(node, "from") =>
         matchesAddressField(IF Has(message, "from") THEN normalizeAddress(message.from)
                             ELSE NoAddress, node.from)
    /\ TruthyField(node, "to") => matchesRecipientField(message, "toRecipients", node.to)
    /\ TruthyField(node, "cc") => matchesRecipientField(message, "ccRecipients", node.cc)
    /\ TruthyField(node, "bcc") => matchesRecipientField(message, "bccRecipients", node.bcc)
    /\ TruthyField(node, "subject") => matchesSubject(message, node.subject)
    /\ TruthyField(node, "text") => matchesText(message, node.text)
    /\ TruthyField(node, "body") => matchesBody(message, node.body)
    /\ TruthyStr(node, "exactPhrase") => matchesExactPhrase(message, node.exactPhrase)
    /\ TruthyField(node, "categories") => matchesCategoryField(message, node.categories)
    /\ TruthyField(node, "label") => matchesLabelField(message, node.label)

buildClientPredicate(query, message) == buildNodePredicate(query, message)

(***************************************************************************)
(* State                                                                   *)
(***************************************************************************)

VARIABLES
  cPc,      \* codec exercise: position ("idle", "input", "encoded", "decoded", "rawdecoded")
  cIn,      \* codec exercise: the parameters given to encodeNextPageToken, or a raw token
  cTok,     \* codec exercise: the token produced by encodeNextPageToken
  cOut,     \* codec exercise: the result of decodeNextPageToken, or Thrown
  qPc,      \* compiler exercise: position ("idle", "input", "compiled")
  qIn,      \* compiler exercise: the query given to toGraphFilter
  qOut,     \* compiler exercise: the result of toGraphFilter, or ThrownPlan
  fPc,      \* function exercise: position ("idle", "input", "applied")
  fIn,      \* function exercise: the function applied and its arguments
  fOut,     \* function exercise: the value returned, or the error thrown
  query,    \* the query of the caller (fixed over a chain of calls), or NoQuery
  opts,     \* pageSize, maxPages, maxItemsScanned, includeBody of the caller
  remote,   \* the pages the remote serves for the search, filter and plain list requests
  pc,       \* position of searchMessages: "idle", "fast", "scan", "scanEnd"
  pageToken,\* opts.pageToken of the running call
  graphPlan,\* the local graphPlan of the running call
  scan,     \* the locals of the running collectClientFilteredPages
  result,   \* what the last call returned or threw
  calls,    \* number of calls started
  fetchLog, \* the remote requests of the running call, in order
  predLog,  \* the raw items the predicate was applied to in the running call, in order
  scansRun, \* the scans started by the running call, in order
  history,  \* one summary per finished call
  turn,     \* two concurrent calls: whose locals the variables above hold (0: one call alone)
  other,    \* two concurrent calls: the locals of the call that is waiting
  overlapped \* two concurrent calls: both had fetched before either returned

codecVars == <<cPc, cIn, cTok, cOut>>

compilerVars == <<qPc, qIn, qOut>>

functionVars == <<fPc, fIn, fOut>>

concurrentVars == <<turn, other, overlapped>>

searchVars == <<query, opts, remote, pc, pageToken, graphPlan, scan, result, calls,
                fetchLog, predLog, scansRun, history>>

vars == <<cPc, cIn, cTok, cOut, qPc, qIn, qOut, fPc, fIn, fOut, query, opts, remote, pc, pageToken,
          graphPlan, scan, result, calls, fetchLog, predLog, scansRun, history, turn, other, overlapped>>

(***************************************************************************)
(* The mailbox and the remote                                              *)
(***************************************************************************)

Addr(a, n) == [address |-> a, name |-> n]

Alice == Addr(<<"a","l","i","c","e","@","e","x","a","m","p","l","e",".","c","o","m">>, <<"A","l","i","c","e">>)
Bob == Addr(<<"b","o","b","@","e","x","a","m","p","l","e",".","c","o","m">>, <<"B","o","b"," ","S","t","o","n","e">>)

Msg(id, subject, body, from, cats, att, received) ==
  [id |-> id, subject |-> subject, bodyPreview |-> body, body |-> body, from |-> from,
   toRecipients |-> <<IF from = Alice THEN Bob ELSE Alice>>, ccRecipients |-> <<>>,
   bccRecipients |-> <<>>, categories |-> cats, hasAttachments |-> att, isRead |-> att,
   importance |-> <<"n","o","r","m","a","l">>, receivedDateTime |-> received]

\* seven messages; the subjects of B, D and F contain "hello"
Mailbox ==
  [id \in {"A", "B", "C", "D", "E", "F", "G"} |->
     CASE id = "A" -> Msg("A", <<"W","e","e","k","l","y"," ","r","e","p","o","r","t">>, <<"n","u","m","b","e","r","s"," ","a","t","t","a","c","h","e","d">>, Alice, <<<<"W","o","r","k">>>>, TRUE, <<"2","0","2","4","-","0","1","-","1","0","T","0","9",":","0","0",":","0","0","Z">>)
       [] id = "B" -> Msg("B", <<"H","e","l","l","o"," ","t","e","a","m">>, <<"h","e","l","l","o"," ","a","l","l">>, Bob, <<<<"W","o","r","k">>>>, FALSE, <<"2","0","2","4","-","0","1","-","1","1","T","0","9",":","0","0",":","0","0","Z">>)
       [] id = "C" -> Msg("C", <<"L","u","n","c","h">>, <<"s","e","e"," "," ","y","o","u"," ","a","t"," ","n","o","o","n">>, Alice, <<>>, FALSE, <<"2","0","2","4","-","0","1","-","1","2","T","0","9",":","0","0",":","0","0","Z">>)
       [] id = "D" -> Msg("D", <<"h","e","l","l","o"," ","a","g","a","i","n">>, <<"m","o","r","e"," ","t","e","x","t">>, Alice, <<<<"T","r","a","v","e","l">>>>, TRUE, <<"2","0","2","4","-","0","1","-","1","3","T","0","9",":","0","0",":","0","0","Z">>)
       [] id = "E" -> Msg("E", <<"I","n","v","o","i","c","e"," ","4","2">>, <<"H","e","l","l","o",","," ","p","l","e","a","s","e"," ","p","a","y">>, Bob, <<<<"W","o","r","k">>>>, TRUE, <<"2","0","2","4","-","0","1","-","1","4","T","0","9",":","0","0",":","0","0","Z">>)
       [] id = "F" -> Msg("F", <<"R","e",":"," ","H","e","l","l","o">>, <<"o","k">>, Bob, <<>>, FALSE, <<"2","0","2","4","-","0","1","-","1","5","T","0","9",":","0","0",":","0","0","Z">>)
       [] id = "G" -> Msg("G", <<"G","o","o","d","b","y","e">>, <<"b","y","e">>, Alice, <<<<"P","e","r","s","o","n","a","l">>>>, FALSE, <<"2","0","2","4","-","0","1","-","1","6","T","0","9",":","0","0",":","0","0","Z">>)]

MailboxOrder == <<"A", "B", "C", "D", "E", "F", "G">>

MaxRemotePages == 2

MaxPageLen == 3

RECURSIVE SumSeq(_)
SumSeq(s) == IF Len(s) = 0 THEN 0 ELSE s[1] + SumSeq(Tail(s))

\* the pages of the mailbox stream cut at the given page lengths
PagesOf(layout) ==
  [i \in 1..Len(layout) |->
     SubSeq(MailboxOrder, SumSeq(SubSeq(layout, 1, i - 1)) + 1, SumSeq(SubSeq(layout, 1, i)))]

Layouts ==
  { l \in UNION { [1..n -> 1..MaxPageLen] : n \in 1..MaxRemotePages } :
      SumSeq(l) <= Len(MailboxOrder) }

\* the source of the spec's mid-page scenario, and sources with an empty
\* page in the middle (it still carries a next cursor), at the start (one
\* empty page, and two in a row) and at the end
ScenarioSource == <<<<"A", "B", "C", "D", "E">>, <<"F", "G">>>>

GapSource == <<<<"A", "B">>, <<>>, <<"C", "D">>>>

EmptyFirstSource == <<<<>>, <<"A", "B">>>>

EmptyLastSource == <<<<"A", "B">>, <<>>>>

EmptyRunSource == <<<<>>, <<>>, <<"B", "C">>>>

\* a mailbox view that holds the one message B
SingleSource == <<<<"B">>>>

EmptySource == <<<<>>>>

Sources ==
  { PagesOf(l) : l \in Layouts }
  \cup {ScenarioSource, GapSource, SingleSource, EmptySource, EmptyFirstSource, EmptyLastSource,
          EmptyRunSource}

\* what the remote may serve for the structural filter of a full-text query
FilterSources ==
  { EmptySource, SingleSource, <<<<"B">>, <<"D", "F">>>>, <<<<"A">>, <<"E">>>>,
    EmptyFirstSource }

ListSource == <<<<"A", "B", "C">>, <<"D", "E", "F">>, <<"G">>>>

\* the cursor that leads to page i of the pages served for a kind of request
CursorOf(kind, i) ==
  (CASE kind = "search" -> <<"s">> [] kind = "filter" -> <<"f">> [] OTHER -> <<"l">>) \o NatToStr(i)

(***************************************************************************)
(* The queries of the callers                                              *)
(***************************************************************************)

NoQuery == [noquery |-> TRUE]

Str(s) == [s |-> s]

Queries ==
  { NoQuery,
    [subject |-> Str(<<"h","e","l","l","o">>)],
    [subject |-> Str(<<"r","e">>)],
    [body |-> Str(<<"h","e","l","l","o">>)],
    [kqlQuery |-> <<"h","e","l","l","o">>],
    [and |-> <<[subject |-> Str(<<"h","e","l","l","o">>)], [from |-> Str(<<"a","l","i","c","e","@","e","x","a","m","p","l","e",".","c","o","m">>)]>>],
    [and |-> <<[text |-> Str(<<"h","e","l","l","o">>)], [categories |-> Str(<<"b","o","g","u","s">>)]>>],
    [and |-> <<[body |-> Str(<<"h","e","l","l","o">>)], [from |-> Str(<<"b","o","b","@","e","x","a","m","p","l","e",".","c","o","m">>)]>>],
    [and |-> <<[subject |-> Str(<<"h","e","l","l","o">>)], [hasAttachment |-> TRUE]>>],
    [categories |-> Str(<<"w","o","r","k">>)],
    [from |-> Str(<<"a","l","i","c","e","@","e","x","a","m","p","l","e",".","c","o","m">>)],
    [hasAttachment |-> TRUE],
    [categories |-> Str(<<"b","o","g","u","s">>)] }

MaxPageSize == 2

CapNull == 0 - 1

Caps ==
  { [maxPages |-> CapNull, maxItemsScanned |-> CapNull],
    [maxPages |-> 1, maxItemsScanned |-> CapNull],
    [maxPages |-> 2, maxItemsScanned |-> CapNull],
    [maxPages |-> CapNull, maxItemsScanned |-> 1],
    [maxPages |-> CapNull, maxItemsScanned |-> 3] }

\* the caller asks for the body only in calls without caps
Options ==
  { [pageSize |-> ps, maxPages |-> c.maxPages, maxItemsScanned |-> c.maxItemsScanned,
     includeBody |-> FALSE] : ps \in 1..MaxPageSize, c \in Caps }
  \cup { [pageSize |-> ps, maxPages |-> CapNull, maxItemsScanned |-> CapNull,
          includeBody |-> TRUE] : ps \in 1..MaxPageSize }

MaxCalls == 3

(***************************************************************************)
(* Inputs of the codec exercise                                            *)
(***************************************************************************)

MaxOffset == 11

S_search == <<"s","e","a","r","c","h">>
S_filter == <<"f","i","l","t","e","r">>

EncodeSkipTokens ==
  { Undefined, <<>>, <<" ">>, <<" "," ">>, FIRST_PAGE_SKIP_TOKEN,
    <<"a","b","c","1","2","3">>, <<"c","1">>, <<"p","a","g","e","-","2">>, <<"a","\"","b">>, <<"\\">>, <<" ","x"," ">>, <<"A","/","b","+","=","~","?">> }

EncodeOffsets == (0 - 1)..MaxOffset

EncodeModes == { Undefined, <<>>, S_search, S_filter }

EncodeInputs ==
  { [flow |-> "roundtrip", skipToken |-> s, offset |-> o, mode |-> m] :
      s \in EncodeSkipTokens, o \in EncodeOffsets, m \in EncodeModes }

\* decoded payloads of 'v2:' tokens, each with the way in which it is malformed
PayloadCorpus ==
 { [kind |-> "badversion", payload |-> <<"{","\"","v","\"",":","1",",","\"","s","k","i","p","T","o","k","e","n","\"",":","\"","c","1","\"",",","\"","o","f","f","s","e","t","\"",":","0","}">>],
   [kind |-> "badversion", payload |-> <<"{","\"","v","\"",":","\"","2","\"",",","\"","s","k","i","p","T","o","k","e","n","\"",":","\"","c","1","\"",",","\"","o","f","f","s","e","t","\"",":","0","}">>],
   [kind |-> "badversion", payload |-> <<"{","\"","s","k","i","p","T","o","k","e","n","\"",":","\"","c","1","\"",",","\"","o","f","f","s","e","t","\"",":","0","}">>],
   [kind |-> "badversion", payload |-> <<"n","u","l","l">>],
   [kind |-> "badversion", payload |-> <<"{","}">>],
   [kind |-> "badskip", payload |-> <<"{","\"","v","\"",":","2",",","\"","s","k","i","p","T","o","k","e","n","\"",":","\"","\"",",","\"","o","f","f","s","e","t","\"",":","0","}">>],
   [kind |-> "badskip", payload |-> <<"{","\"","v","\"",":","2",",","\"","s","k","i","p","T","o","k","e","n","\"",":","\""," ","\"",",","\"","o","f","f","s","e","t","\"",":","2","}">>],
   [kind |-> "badskip", payload |-> <<"{","\"","v","\"",":","2",",","\"","s","k","i","p","T","o","k","e","n","\"",":","5",",","\"","o","f","f","s","e","t","\"",":","0","}">>],
   [kind |-> "badskip", payload |-> <<"{","\"","v","\"",":","2",",","\"","o","f","f","s","e","t","\"",":","0","}">>],
   [kind |-> "badoffset", payload |-> <<"{","\"","v","\"",":","2",",","\"","s","k","i","p","T","o","k","e","n","\"",":","\"","c","1","\"",",","\"","o","f","f","s","e","t","\"",":","-","1","}">>],
   [kind |-> "badoffset", payload |-> <<"{","\"","v","\"",":","2",",","\"","s","k","i","p","T","o","k","e","n","\"",":","\"","c","1","\"",",","\"","o","f","f","s","e","t","\"",":","1",".","5","}">>],
   [kind |-> "badoffset", payload |-> <<"{","\"","v","\"",":","2",",","\"","s","k","i","p","T","o","k","e","n","\"",":","\"","c","1","\"",",","\"","o","f","f","s","e","t","\"",":","\"","3","\"","}">>],
   [kind |-> "badoffset", payload |-> <<"{","\"","v","\"",":","2",",","\"","s","k","i","p","T","o","k","e","n","\"",":","\"","c","1","\"","}">>],
   [kind |-> "badparse", payload |-> <<"{","\"","v","\"",":","2",",","\"","s","k","i","p","T","o","k","e","n","\"",":","\"","c","1","\"",",","\"","o","f","f","s","e","t","\"",":","0">>],
   [kind |-> "badparse", payload |-> <<"{","\"","v","\"",":","2",",","\"","s","k","i","p","T","o","k","e","n","\"",":","\"","c","1",",","\"","o","f","f","s","e","t","\"",":","0","}">>],
   [kind |-> "badparse", payload |-> <<"{","\"","v","\"",":","0","2",",","\"","s","k","i","p","T","o","k","e","n","\"",":","\"","c","1","\"",",","\"","o","f","f","s","e","t","\"",":","0","}">>],
   [kind |-> "badparse", payload |-> <<>>],
   [kind |-> "badparse", payload |-> <<"v","2">>],
   [kind |-> "valid", payload |-> <<"{","\"","v","\"",":","2",",","\"","s","k","i","p","T","o","k","e","n","\"",":","\"","c","1","\"",",","\"","o","f","f","s","e","t","\"",":","3",",","\"","m","o","d","e","\"",":","\"","f","i","l","t","e","r","\"","}">>],
   [kind |-> "valid", payload |-> <<"{","\"","v","\"",":","2",".","0",",","\"","s","k","i","p","T","o","k","e","n","\"",":","\"","c","1","\"",",","\"","o","f","f","s","e","t","\"",":","1",".","0","}">>],
   [kind |-> "valid", payload |-> <<"{","\"","o","f","f","s","e","t","\"",":","4",",","\"","s","k","i","p","T","o","k","e","n","\"",":","\"","_","_","m","c","p","_","o","u","t","l","o","o","k","_","f","i","r","s","t","_","p","a","g","e","_","_","\"",",","\"","v","\"",":","2",",","\"","m","o","d","e","\"",":","7","}">>] }

RawInputs ==
 { [flow |-> "raw", kind |-> "undefined", raw |-> Undefined],
   [flow |-> "raw", kind |-> "empty", raw |-> <<>>],
   [flow |-> "raw", kind |-> "noprefix", raw |-> <<"n","o","t","-","a","-","t","o","k","e","n">>],
   [flow |-> "raw", kind |-> "noprefix", raw |-> <<"c","1">>],
   [flow |-> "raw", kind |-> "noprefix", raw |-> <<" ">>],
   [flow |-> "raw", kind |-> "noprefix", raw |-> <<"V","2",":","e","3","0">>],
   [flow |-> "raw", kind |-> "noprefix", raw |-> <<"v","2">>],
   [flow |-> "raw", kind |-> "badparse", raw |-> <<"v","2",":">>],
   [flow |-> "raw", kind |-> "badparse", raw |-> <<"v","2",":","a","b","c">>],
   [flow |-> "raw", kind |-> "badparse", raw |-> <<"v","2",":","A">>],
   [flow |-> "raw", kind |-> "badparse", raw |-> <<"v","2",":","e","-","_","9">>] }
 \cup { [flow |-> "raw", kind |-> pl.kind, raw |-> PREFIX \o base64UrlEncode(pl.payload)] :
          pl \in PayloadCorpus }

(***************************************************************************)
(* Idle values of the three parts of the state                             *)
(***************************************************************************)

CodecIdle ==
  /\ cPc = "idle"
  /\ cIn = [flow |-> "none"]
  /\ cTok = Undefined
  /\ cOut = [flow |-> "none"]

CompilerIdle ==
  /\ qPc = "idle"
  /\ qIn = NoQuery
  /\ qOut = [none |-> TRUE]

FunctionsIdle ==
  /\ fPc = "idle"
  /\ fIn = [fn |-> "none"]
  /\ fOut = [none |-> TRUE]

ConcurrentIdle ==
  /\ turn = 0
  /\ other = [pc |-> "off"]
  /\ overlapped = FALSE

NoScan == [mode |-> "none"]

NoResult == [status |-> "none", messages |-> <<>>, nextPageToken |-> Undefined]

SearchIdle ==
  /\ query = NoQuery
  /\ opts = [pageSize |-> 1, maxPages |-> CapNull, maxItemsScanned |-> CapNull,
             includeBody |-> FALSE]
  /\ remote = [search |-> EmptySource, filter |-> EmptySource, list |-> EmptySource]
  /\ pc = "off"
  /\ pageToken = Undefined
  /\ graphPlan = [search |-> Null, filter |-> Null, requireBodyClientFilter |-> FALSE,
                  hasFullText |-> FALSE]
  /\ scan = NoScan
  /\ result = NoResult
  /\ calls = 0
  /\ fetchLog = <<>>
  /\ predLog = <<>>
  /\ scansRun = <<>>
  /\ history = <<>>

(***************************************************************************)
(* The codec exercise: encode then decode, or decode a raw token           *)
(***************************************************************************)

InitCodec ==
  /\ cPc = "input"
  /\ cIn \in EncodeInputs \cup RawInputs
  /\ cTok = Undefined
  /\ cOut = [flow |-> "none"]
  /\ CompilerIdle
  /\ FunctionsIdle
  /\ SearchIdle
  /\ ConcurrentIdle

CodecEncode ==
  /\ cPc = "input"
  /\ cIn.flow = "roundtrip"
  /\ cTok' = encodeNextPageToken(cIn)
  /\ cPc' = "encoded"
  /\ UNCHANGED <<cIn, cOut, compilerVars, searchVars, functionVars, concurrentVars>>

CodecDecode ==
  /\ cPc = "encoded"
  /\ cOut' = decodeNextPageToken(cTok)
  /\ cPc' = "decoded"
  /\ UNCHANGED <<cIn, cTok, compilerVars, searchVars, functionVars, concurrentVars>>

CodecDecodeRaw ==
  /\ cPc = "input"
  /\ cIn.flow = "raw"
  /\ cOut' = decodeNextPageToken(cIn.raw)
  /\ cPc' = "rawdecoded"
  /\ UNCHANGED <<cIn, cTok, compilerVars, searchVars, functionVars, concurrentVars>>

NextCodec == CodecEncode \/ CodecDecode \/ CodecDecodeRaw

SpecCodec == InitCodec /\ [][NextCodec]_vars

(***************************************************************************)
(* search-execution.ts                                                     *)
(***************************************************************************)

DefaultPlan ==
  [search |-> Null, filter |-> Null, requireBodyClientFilter |-> FALSE, hasFullText |-> FALSE]

\* the value searchMessages gives its local graphPlan
PlanOf(q) == IF q = NoQuery THEN DefaultPlan ELSE toGraphFilter(q)

useClientFiltering == query # NoQuery /\ graphPlan # ThrownPlan /\ graphPlan.hasFullText

\* mutant: the body is requested only when the caller asks for it
effectiveIncludeBody_CallerOnly == opts.includeBody

effectiveIncludeBody ==
  opts.includeBody \/ (graphPlan.requireBodyClientFilter /\ ~opts.includeBody)

\* selectFields of fetchGraphPage
selectFields(includeBody) ==
  {"id", "conversationId", "receivedDateTime", "subject", "bodyPreview", "from",
   "toRecipients", "ccRecipients", "bccRecipients"}
  \cup (IF includeBody THEN {"body"} ELSE {})

\* a message as the remote returns it for a $select
FetchedView(id, includeBody) ==
  [k \in (DOMAIN Mailbox[id]) \cap selectFields(includeBody) |-> Mailbox[id][k]]

\* mutant: the filter is never put on the request
GraphRequest_DropFilter(search, filter, skipToken, includeBody) ==
  [kind |-> IF search # Undefined /\ search # <<>> THEN "search" ELSE "list",
   search |-> IF search # Undefined /\ search # <<>> THEN search ELSE Undefined,
   filter |-> Undefined,
   skipToken |-> IF skipToken # Undefined /\ skipToken # <<>>
                    /\ skipToken # FIRST_PAGE_SKIP_TOKEN
                 THEN skipToken ELSE Undefined,
   select |-> selectFields(includeBody)]

\* the request fetchGraphPage sends: search and filter are Undefined when not given
GraphRequest(search, filter, skipToken, includeBody) ==
  [kind |-> IF search # Undefined /\ search # <<>> THEN "search"
            ELSE IF filter # Undefined /\ filter # <<>> THEN "filter"
            ELSE "list",
   search |-> IF search # Undefined /\ search # <<>> THEN search ELSE Undefined,
   filter |-> IF filter # Undefined /\ filter # <<>> THEN filter ELSE Undefined,
   skipToken |-> IF skipToken # Undefined /\ skipToken # <<>>
                    /\ skipToken # FIRST_PAGE_SKIP_TOKEN
                 THEN skipToken ELSE Undefined,
   select |-> selectFields(includeBody)]

\* the page of the remote a request addresses; 0 when the cursor is unknown
PageIndex(req) ==
  IF req.skipToken = Undefined THEN 1
  ELSE IF \E i \in 2..Len(remote[req.kind]) : CursorOf(req.kind, i) = req.skipToken
       THEN CHOOSE i \in 2..Len(remote[req.kind]) : CursorOf(req.kind, i) = req.skipToken
       ELSE 0

\* mutant: the next link of the response is never read
fetchGraphPage_NoNextLink(req) ==
  [messages |-> remote[req.kind][PageIndex(req)], nextSkipToken |-> Undefined]

\* the value fetchGraphPage resolves to (messages are kept as ids)
fetchGraphPage(req) ==
  LET i == PageIndex(req)
  IN [messages |-> remote[req.kind][i],
      nextSkipToken |-> IF i < Len(remote[req.kind]) THEN CursorOf(req.kind, i + 1)
                        ELSE Undefined]

OrUndefined(x) == IF x = Null THEN Undefined ELSE x

\* mutant: the scan starts at the head of its first page
InitScan_OffsetZero(mode, search, filter, startSkipToken, startOffset) ==
  [mode |-> mode, search |-> search, filter |-> filter,
   currentSkipToken |-> startSkipToken, offset |-> 0,
   collected |-> <<>>, midPageToken |-> Undefined, lastNextSkipToken |-> Undefined,
   capHit |-> FALSE, pagesFetched |-> 0, scannedItems |-> 0, searchCollected |-> <<>>]

\* the parameters and locals of collectClientFilteredPages; searchCollected is
\* searchResult.collected, which searchMessages keeps during the fallback scan
InitScan(mode, search, filter, startSkipToken, startOffset) ==
  [mode |-> mode, search |-> search, filter |-> filter,
   currentSkipToken |-> startSkipToken, offset |-> startOffset,
   collected |-> <<>>, midPageToken |-> Undefined, lastNextSkipToken |-> Undefined,
   capHit |-> FALSE, pagesFetched |-> 0, scannedItems |-> 0, searchCollected |-> <<>>]

\* mutant: the buffer is found full one item late
bufferFull_OneLate(collected) == Len(collected) = opts.pageSize + 1

\* collected.length === pageSize
bufferFull(collected) == Len(collected) = opts.pageSize

\* mutant: the offset is counted in the sliced page
nextOffset_Sliced(startIndex, idx) == idx + 1

\* const nextOffset = startIndex + idx + 1
nextOffset(startIndex, idx) == startIndex + idx + 1

\* mutant: no item is skipped
predicateRejects_Never(message, includeBody) == FALSE

\* predicate && !predicate(message), for the item as it was fetched
predicateRejects(message, includeBody) ==
  ~buildClientPredicate(query, FetchedView(message, includeBody))

\* the for loop over the sliced page, from position idx (0-based, as in the code);
\* acc carries collected, scannedItems, capHit, midPageToken, the items the
\* predicate was applied to, and whether mainLoop was left
RECURSIVE scanSliced(_, _, _, _)
scanSliced(sliced, idx, ctx, acc) ==
  IF idx >= Len(sliced) THEN acc
  ELSE
    LET message == sliced[idx + 1]
        scannedItems == acc.scannedItems + 1
    IN IF opts.maxItemsScanned # CapNull /\ scannedItems > opts.maxItemsScanned
       THEN [acc EXCEPT !.scannedItems = scannedItems, !.capHit = TRUE, !.broke = TRUE]
       ELSE
         LET applied == Append(acc.applied, [kind |-> ctx.kind, id |-> message])
         IN IF predicateRejects(message, ctx.includeBody)
            THEN scanSliced(sliced, idx + 1, ctx,
                   [acc EXCEPT !.scannedItems = scannedItems, !.applied = applied])
            ELSE
              LET collected == Append(acc.collected, message)
              IN IF bufferFull(collected)
                 THEN [acc EXCEPT !.scannedItems = scannedItems, !.applied = applied,
                                  !.collected = collected, !.broke = TRUE,
                                  !.midPageToken =
                                     encodeNextPageToken(
                                       [skipToken |-> ctx.pageTokenUsed,
                                        offset |-> nextOffset(ctx.startIndex, idx),
                                        mode |-> ctx.mode])]
                 ELSE scanSliced(sliced, idx + 1, ctx,
                        [acc EXCEPT !.scannedItems = scannedItems, !.applied = applied,
                                    !.collected = collected])

\* the request of the running scan for its current cursor
ScanRequest ==
  GraphRequest(scan.search, scan.filter, scan.currentSkipToken, effectiveIncludeBody)

S_modeOf(mode) == IF mode = "search" THEN S_search ELSE S_filter

ErrorResult(kind) ==
  [status |-> "error", error |-> kind, messages |-> <<>>, nextPageToken |-> Undefined]

\* the error request.get() rejects with: the remote does not know the cursor,
\* or it fails for a reason of its own
GraphError(req) ==
  [code |-> IF PageIndex(req) = 0 THEN "BadRequest" ELSE "ServiceUnavailable",
   request |-> req]

\* an entry of fetchLog: the request, and whether the remote rejected it
Sent(req, rejected) ==
  [kind |-> req.kind, search |-> req.search, filter |-> req.filter,
   skipToken |-> req.skipToken, select |-> req.select, rejected |-> rejected]

RequestOf(entry) ==
  [kind |-> entry.kind, search |-> entry.search, filter |-> entry.filter,
   skipToken |-> entry.skipToken, select |-> entry.select]

\* mutant: the rejection is caught and what was collected is handed back
FetchRejected_Swallowed(req) ==
  [status |-> "ok", messages |-> IF scan = NoScan THEN <<>> ELSE scan.collected,
   nextPageToken |-> Undefined]

\* searchMessages rejects with the error of the fetch: nothing catches it
FetchRejected(req) ==
  [status |-> "error", error |-> "remote", cause |-> GraphError(req),
   messages |-> <<>>, nextPageToken |-> Undefined]

\* the summary of the finished call kept in history
Summary(res, tokenKind) ==
  [pageToken |-> pageToken, status |-> res.status, messages |-> res.messages,
   nextPageToken |-> res.nextPageToken, tokenKind |-> tokenKind,
   fetchLog |-> fetchLog', predLog |-> predLog', scansRun |-> scansRun,
   lastScan |-> scan]

\* mutant: at the end of a scan the outcome is stored and cleared in turn,
\* and the promise of searchMessages is never settled
Return_Pending(res, tokenKind) ==
  IF pc = "scanEnd"
  THEN /\ result' = (IF result = res THEN NoResult ELSE res)
       /\ pc' = pc
       /\ history' = history
  ELSE /\ result' = res
       /\ pc' = "idle"
       /\ history' = Append(history, Summary(res, tokenKind))

\* searchMessages returns or rejects: the call is over
Return(res, tokenKind) ==
  /\ result' = res
  /\ pc' = "idle"
  /\ history' = Append(history, Summary(res, tokenKind))

\* executeQuery around searchMessages: a rejection is logged and thrown again,
\* a result is passed through transform item by item
transform(item) == [item |-> item]

executeQuery(res) ==
  IF res.status = "error" THEN res
  ELSE [success |-> TRUE,
        items |-> [i \in 1..Len(res.messages) |-> transform(res.messages[i])],
        metadata |-> [nextPageToken |-> res.nextPageToken,
                      totalFetched |-> Len(res.messages)]]

Environment == <<query, opts, remote>>

(***************************************************************************)
(* searchMessages, one action per stretch between two awaits               *)
(***************************************************************************)

\* the caller invokes searchMessages: first without a token, then with the
\* nextPageToken of its previous call
StartCallOk ==
  /\ pc = "idle"
  /\ calls < MaxCalls
  /\ IF calls = 0 THEN pageToken' = Undefined
     ELSE /\ result.status = "ok"
          /\ result.nextPageToken # Undefined
          /\ pageToken' = result.nextPageToken
  /\ graphPlan' = PlanOf(query)
  /\ graphPlan' # ThrownPlan
  /\ calls' = calls + 1
  /\ fetchLog' = <<>>
  /\ predLog' = <<>>
  /\ LET pageState == decodeNextPageToken(pageToken')
     IN IF query # NoQuery /\ graphPlan'.hasFullText
        THEN /\ pc' = "scan"
             /\ scan' = InitScan("search", OrUndefined(graphPlan'.search), Undefined,
                                 pageState.skipToken, pageState.offset)
             /\ scansRun' = <<"search">>
        ELSE /\ pc' = "fast"
             /\ scan' = NoScan
             /\ scansRun' = <<>>
  /\ UNCHANGED <<result, history, Environment, codecVars, compilerVars, functionVars, concurrentVars>>

\* toGraphFilter throws: the call fails before any fetch
StartCallThrows ==
  /\ pc = "idle"
  /\ calls = 0
  /\ graphPlan' = PlanOf(query)
  /\ graphPlan' = ThrownPlan
  /\ pageToken' = Undefined
  /\ calls' = calls + 1
  /\ fetchLog' = <<>>
  /\ predLog' = <<>>
  /\ scansRun' = <<>>
  /\ scan' = NoScan
  /\ UNCHANGED <<Environment, codecVars, compilerVars, functionVars, concurrentVars>>
  /\ Return(ErrorResult("validation"), "none")

\* the request of the fast path
FastRequest ==
  GraphRequest(OrUndefined(graphPlan.search), OrUndefined(graphPlan.filter),
               decodeNextPageToken(pageToken).skipToken, effectiveIncludeBody)

\* the fast path: one fetch, returned as it is
FastPath ==
  /\ pc = "fast"
  /\ PageIndex(FastRequest) # 0
  /\ UNCHANGED <<pageToken, graphPlan, scan, calls, predLog, scansRun, Environment, codecVars,
                 compilerVars, functionVars, concurrentVars>>
  /\ fetchLog' = Append(fetchLog, Sent(FastRequest, FALSE))
  /\ LET page == fetchGraphPage(FastRequest)
     IN Return([status |-> "ok", messages |-> page.messages,
                nextPageToken |-> page.nextSkipToken],
               IF page.nextSkipToken = Undefined THEN "none" ELSE "raw")

\* the fetch of the fast path rejects: the call fails with that error
FastPathFetchFails ==
  /\ pc = "fast"
  /\ UNCHANGED <<pageToken, graphPlan, scan, calls, predLog, scansRun, Environment, codecVars,
                 compilerVars, functionVars, concurrentVars>>
  /\ fetchLog' = Append(fetchLog, Sent(FastRequest, TRUE))
  /\ Return(FetchRejected(FastRequest), "none")

\* mainLoop is left because maxPages is reached (or the buffer is full on entry)
CollectCapped ==
  /\ pc = "scan"
  /\ \/ Len(scan.collected) >= opts.pageSize
     \/ opts.maxPages # CapNull /\ scan.pagesFetched >= opts.maxPages
  /\ scan' = IF Len(scan.collected) >= opts.pageSize THEN scan
             ELSE [scan EXCEPT !.capHit = TRUE]
  /\ pc' = "scanEnd"
  /\ UNCHANGED <<pageToken, graphPlan, result, calls, fetchLog, predLog, scansRun, history,
                 Environment, codecVars, compilerVars, functionVars, concurrentVars>>

\* one iteration of mainLoop: fetch a page and scan it
CollectPage ==
  /\ pc = "scan"
  /\ Len(scan.collected) < opts.pageSize
  /\ ~(opts.maxPages # CapNull /\ scan.pagesFetched >= opts.maxPages)
  /\ PageIndex(ScanRequest) # 0
  /\ fetchLog' = Append(fetchLog, Sent(ScanRequest, FALSE))
  /\ LET pageTokenUsed == scan.currentSkipToken
         graphPage == fetchGraphPage(ScanRequest)
         pageItems == graphPage.messages
         startIndex == scan.offset
         sliced == IF startIndex > 0 THEN slice(pageItems, startIndex) ELSE pageItems
         fetched == [scan EXCEPT !.pagesFetched = scan.pagesFetched + 1,
                                 !.lastNextSkipToken = graphPage.nextSkipToken]
         ctx == [kind |-> ScanRequest.kind, includeBody |-> effectiveIncludeBody,
                 pageTokenUsed |-> pageTokenUsed, startIndex |-> startIndex,
                 mode |-> S_modeOf(scan.mode)]
         acc == scanSliced(sliced, 0, ctx,
                  [collected |-> scan.collected, scannedItems |-> scan.scannedItems,
                   capHit |-> FALSE, midPageToken |-> Undefined, applied |-> <<>>,
                   broke |-> FALSE])
     IN IF Len(pageItems) = 0
        THEN /\ scan' = fetched
             /\ pc' = "scanEnd"
             /\ predLog' = predLog
        ELSE /\ scan' = [fetched EXCEPT !.offset = 0,
                                        !.collected = acc.collected,
                                        !.scannedItems = acc.scannedItems,
                                        !.capHit = acc.capHit,
                                        !.midPageToken = acc.midPageToken,
                                        !.currentSkipToken =
                                           IF acc.broke THEN scan.currentSkipToken
                                           ELSE graphPage.nextSkipToken]
             /\ predLog' = predLog \o acc.applied
             /\ pc' = IF acc.broke \/ graphPage.nextSkipToken = Undefined
                      THEN "scanEnd" ELSE "scan"
  /\ UNCHANGED <<pageToken, graphPlan, result, calls, scansRun, history, Environment, codecVars,
                 compilerVars, functionVars, concurrentVars>>

\* the fetch of a scan rejects (the remote may fail any request, and it
\* rejects a cursor it does not know): the call fails with that error
CollectFetchFails ==
  /\ pc = "scan"
  /\ Len(scan.collected) < opts.pageSize
  /\ ~(opts.maxPages # CapNull /\ scan.pagesFetched >= opts.maxPages)
  /\ fetchLog' = Append(fetchLog, Sent(ScanRequest, TRUE))
  /\ predLog' = predLog
  /\ UNCHANGED <<pageToken, graphPlan, scan, calls, scansRun, Environment, codecVars, compilerVars, functionVars, concurrentVars>>
  /\ Return(FetchRejected(ScanRequest), "none")

\* mutant: the remote cursor is looked at before the cap
ScanOutcome_CursorFirst ==
  IF scan.midPageToken # Undefined THEN
    [res |-> [status |-> "ok", messages |-> scan.collected,
              nextPageToken |-> scan.midPageToken],
     tokenKind |-> "mid"]
  ELSE IF scan.lastNextSkipToken # Undefined THEN
    [res |-> [status |-> "ok", messages |-> scan.collected,
              nextPageToken |-> encodeNextPageToken(
                                  [skipToken |-> scan.lastNextSkipToken, offset |-> 0,
                                   mode |-> S_modeOf(scan.mode)])],
     tokenKind |-> "boundary"]
  ELSE IF scan.capHit \/ Len(scan.collected) > 0 THEN
    [res |-> [status |-> "ok", messages |-> scan.collected, nextPageToken |-> Undefined],
     tokenKind |-> "none"]
  ELSE [res |-> NoResult, tokenKind |-> "none"]

\* mutant: the cursor of the last page is not handed back
ScanOutcome_DropCursor ==
  IF scan.capHit THEN
    [res |-> [status |-> "ok", messages |-> scan.collected, nextPageToken |-> Undefined],
     tokenKind |-> "none"]
  ELSE IF scan.midPageToken # Undefined THEN
    [res |-> [status |-> "ok", messages |-> scan.collected,
              nextPageToken |-> scan.midPageToken],
     tokenKind |-> "mid"]
  ELSE IF scan.lastNextSkipToken # Undefined \/ Len(scan.collected) > 0 THEN
    [res |-> [status |-> "ok", messages |-> scan.collected, nextPageToken |-> Undefined],
     tokenKind |-> "none"]
  ELSE [res |-> NoResult, tokenKind |-> "none"]

\* mutant: a scan that collected items without a token gives no result of its own
ScanOutcome_DropCollected ==
  IF scan.capHit THEN
    [res |-> [status |-> "ok", messages |-> scan.collected, nextPageToken |-> Undefined],
     tokenKind |-> "none"]
  ELSE IF scan.midPageToken # Undefined THEN
    [res |-> [status |-> "ok", messages |-> scan.collected,
              nextPageToken |-> scan.midPageToken],
     tokenKind |-> "mid"]
  ELSE IF scan.lastNextSkipToken # Undefined THEN
    [res |-> [status |-> "ok", messages |-> scan.collected,
              nextPageToken |-> encodeNextPageToken(
                                  [skipToken |-> scan.lastNextSkipToken, offset |-> 0,
                                   mode |-> S_modeOf(scan.mode)])],
     tokenKind |-> "boundary"]
  ELSE [res |-> NoResult, tokenKind |-> "none"]

\* the result of a finished scan, by the precedence of searchMessages;
\* status "none" when the scan gives no result of its own
ScanOutcome ==
  IF scan.capHit THEN
    [res |-> [status |-> "ok", messages |-> scan.collected, nextPageToken |-> Undefined],
     tokenKind |-> "none"]
  ELSE IF scan.midPageToken # Undefined THEN
    [res |-> [status |-> "ok", messages |-> scan.collected,
              nextPageToken |-> scan.midPageToken],
     tokenKind |-> "mid"]
  ELSE IF scan.lastNextSkipToken # Undefined THEN
    [res |-> [status |-> "ok", messages |-> scan.collected,
              nextPageToken |-> encodeNextPageToken(
                                  [skipToken |-> scan.lastNextSkipToken, offset |-> 0,
                                   mode |-> S_modeOf(scan.mode)])],
     tokenKind |-> "boundary"]
  ELSE IF Len(scan.collected) > 0 THEN
    [res |-> [status |-> "ok", messages |-> scan.collected, nextPageToken |-> Undefined],
     tokenKind |-> "none"]
  ELSE [res |-> NoResult, tokenKind |-> "none"]

\* the search scan is over and decides the result
SearchScanReturns ==
  /\ pc = "scanEnd"
  /\ scan.mode = "search"
  /\ ScanOutcome.res.status = "ok"
  /\ UNCHANGED <<pageToken, graphPlan, scan, calls, fetchLog, predLog, scansRun, Environment,
                 codecVars, compilerVars, functionVars, concurrentVars>>
  /\ Return(ScanOutcome.res, ScanOutcome.tokenKind)

\* nothing found and nothing left: no structural filter, so the empty result
SearchScanEmpty ==
  /\ pc = "scanEnd"
  /\ scan.mode = "search"
  /\ ScanOutcome.res.status = "none"
  /\ buildQueryFilter(query) # ThrowStr
  /\ trim(buildQueryFilter(query)) = <<>>
  /\ UNCHANGED <<pageToken, graphPlan, scan, calls, fetchLog, predLog, scansRun, Environment,
                 codecVars, compilerVars, functionVars, concurrentVars>>
  /\ Return([status |-> "ok", messages |-> scan.collected, nextPageToken |-> Undefined],
            "none")

\* nothing found and nothing left: buildQueryFilter throws
FallbackCompileThrows ==
  /\ pc = "scanEnd"
  /\ scan.mode = "search"
  /\ ScanOutcome.res.status = "none"
  /\ buildQueryFilter(query) = ThrowStr
  /\ UNCHANGED <<pageToken, graphPlan, scan, calls, fetchLog, predLog, scansRun, Environment,
                 codecVars, compilerVars, functionVars, concurrentVars>>
  /\ Return(ErrorResult("validation"), "none")

\* nothing found and nothing left: the fallback scan with the structural filter
StartFallback ==
  /\ pc = "scanEnd"
  /\ scan.mode = "search"
  /\ ScanOutcome.res.status = "none"
  /\ buildQueryFilter(query) # ThrowStr
  /\ trim(buildQueryFilter(query)) # <<>>
  /\ scan' = [InitScan("filter", Undefined, trim(buildQueryFilter(query)), Undefined, 0)
                EXCEPT !.searchCollected = scan.collected]
  /\ scansRun' = Append(scansRun, "filter")
  /\ pc' = "scan"
  /\ UNCHANGED <<pageToken, graphPlan, result, calls, fetchLog, predLog, history, Environment,
                 codecVars, compilerVars, functionVars, concurrentVars>>

\* the fallback scan is over: its outcome, or the (empty) result of the search scan
FallbackScanReturns ==
  /\ pc = "scanEnd"
  /\ scan.mode = "filter"
  /\ UNCHANGED <<pageToken, graphPlan, scan, calls, fetchLog, predLog, scansRun, Environment,
                 codecVars, compilerVars, functionVars, concurrentVars>>
  /\ IF ScanOutcome.res.status = "ok"
     THEN Return(ScanOutcome.res, ScanOutcome.tokenKind)
     ELSE Return([status |-> "ok", messages |-> scan.searchCollected,
                  nextPageToken |-> Undefined], "none")

\* the remotes a query can meet: only the pages its requests can address vary
ThrowsOrBlank(filterStr) == filterStr = ThrowStr \/ trim(filterStr) = <<>>

HasFallbackFilter(q) == q # NoQuery /\ ~ThrowsOrBlank(buildQueryFilter(q))

RemotesOf(plan, hasFallback) ==
  IF plan = ThrownPlan THEN
    {[search |-> EmptySource, filter |-> EmptySource, list |-> ListSource]}
  ELSE IF ~plan.hasFullText THEN
    {[search |-> EmptySource, filter |-> s, list |-> ListSource] : s \in Sources}
  ELSE
    {[search |-> s, filter |-> f, list |-> ListSource] :
       s \in Sources, f \in IF hasFallback THEN FilterSources ELSE {EmptySource}}

RemotesFor(q) == RemotesOf(PlanOf(q), HasFallbackFilter(q))

\* the caps only bear on the scans, so the fast path is run without them
OptionsOf(plan) ==
  IF plan # ThrownPlan /\ plan.hasFullText THEN Options
  ELSE { o \in Options : o.maxPages = CapNull /\ o.maxItemsScanned = CapNull }

OptionsFor(q) == OptionsOf(PlanOf(q))

Init ==
  /\ query \in Queries
  /\ opts \in OptionsFor(query)
  /\ remote \in RemotesFor(query)
  /\ pc = "idle"
  /\ pageToken = Undefined
  /\ graphPlan = DefaultPlan
  /\ scan = NoScan
  /\ result = NoResult
  /\ calls = 0
  /\ fetchLog = <<>>
  /\ predLog = <<>>
  /\ scansRun = <<>>
  /\ history = <<>>
  /\ CodecIdle
  /\ CompilerIdle
  /\ FunctionsIdle
  /\ ConcurrentIdle

Next ==
  \/ StartCallOk
  \/ StartCallThrows
  \/ FastPath
  \/ FastPathFetchFails
  \/ CollectCapped
  \/ CollectPage
  \/ CollectFetchFails
  \/ SearchScanReturns
  \/ SearchScanEmpty
  \/ FallbackCompileThrows
  \/ StartFallback
  \/ FallbackScanReturns

Spec == Init /\ [][Next]_vars

\* a step of a call that was started: the awaited fetch settles and the
\* continuation of the async function runs
CallStep ==
  \/ FastPath
  \/ FastPathFetchFails
  \/ CollectCapped
  \/ CollectPage
  \/ CollectFetchFails
  \/ SearchScanReturns
  \/ SearchScanEmpty
  \/ FallbackCompileThrows
  \/ StartFallback
  \/ FallbackScanReturns

\* the callers and remotes of the termination exercise: every path of
\* searchMessages, against sources with pages that hold no accepted item,
\* with empty pages and with a page the resumed offset lies past the end of
LiveQueries ==
  { NoQuery,
    [subject |-> Str(<<"h","e","l","l","o">>)],
    [body |-> Str(<<"h","e","l","l","o">>)],
    [and |-> <<[subject |-> Str(<<"h","e","l","l","o">>)], [from |-> Str(<<"a","l","i","c","e","@","e","x","a","m","p","l","e",".","c","o","m">>)]>>],
    [and |-> <<[text |-> Str(<<"h","e","l","l","o">>)], [categories |-> Str(<<"b","o","g","u","s">>)]>>],
    [categories |-> Str(<<"b","o","g","u","s">>)] }

LiveSources ==
  {ScenarioSource, GapSource, SingleSource, EmptyFirstSource, EmptyRunSource,
   <<<<"A", "B">>, <<"C">>>>}

LiveRemotes(q) ==
  { r \in RemotesFor(q) : r.search \in LiveSources \cup {EmptySource}
                          /\ r.filter \in LiveSources \cup {EmptySource} }

InitLive ==
  /\ Init
  /\ query \in LiveQueries
  /\ remote \in LiveRemotes(query)

\* the same machine, with every started call running on; the caller is free
\* to stop calling. The event loop runs the continuation of every await: a
\* call in flight always has a step to take (a fetch that resolves or rejects,
\* or the code after the loop), so weak fairness of CallStep reads: the machine
\* is idle again and again, or steps of the call happen again and again
CallFairness == []<>(pc = "idle") \/ []<><<CallStep>>_vars
SpecLive == InitLive /\ [][Next]_vars /\ CallFairness

(***************************************************************************)
(* Two concurrent calls of searchMessages.  A call runs between two awaits *)
(* without interruption; at an await another call may run.  Each call has  *)
(* its own activation: its parameters and locals, and those of its         *)
(* collectClientFilteredPages.  One call is run alone first, then two      *)
(* calls with the same arguments run interleaved against the same remote.  *)
(***************************************************************************)

ConcurrentQueries ==
  { [subject |-> Str(<<"h","e","l","l","o">>)],
    [subject |-> Str(<<"r","e">>)],
    [and |-> <<[subject |-> Str(<<"h","e","l","l","o">>)], [from |-> Str(<<"a","l","i","c","e","@","e","x","a","m","p","l","e",".","c","o","m">>)]>>],
    [categories |-> Str(<<"w","o","r","k">>)] }

ConcurrentSources ==
  { EmptySource, SingleSource, ScenarioSource, GapSource,
    <<<<"A", "B", "C">>, <<"D", "E", "F">>>> }

ConcurrentRemotes(q) ==
  { r \in RemotesFor(q) : r.search \in ConcurrentSources /\ r.filter \in ConcurrentSources }

ConcurrentOptions(q) == { o \in OptionsFor(q) : ~o.includeBody }

\* the parameters and locals of the call the variables hold
Locals ==
  [pc |-> pc, pageToken |-> pageToken, graphPlan |-> graphPlan, scan |-> scan,
   result |-> result, calls |-> calls, fetchLog |-> fetchLog, predLog |-> predLog,
   scansRun |-> scansRun]

\* a call that has not been made yet
NotCalled ==
  [pc |-> "idle", pageToken |-> Undefined, graphPlan |-> DefaultPlan, scan |-> NoScan,
   result |-> NoResult, calls |-> 0, fetchLog |-> <<>>, predLog |-> <<>>,
   scansRun |-> <<>>]

InitConcurrent ==
  /\ query \in ConcurrentQueries
  /\ opts \in ConcurrentOptions(query)
  /\ remote \in ConcurrentRemotes(query)
  /\ pc = "idle"
  /\ pageToken = Undefined
  /\ graphPlan = DefaultPlan
  /\ scan = NoScan
  /\ result = NoResult
  /\ calls = 0
  /\ fetchLog = <<>>
  /\ predLog = <<>>
  /\ scansRun = <<>>
  /\ history = <<>>
  /\ CodecIdle
  /\ CompilerIdle
  /\ FunctionsIdle
  /\ ConcurrentIdle

\* a caller invokes searchMessages without a token
ConcurrentStart ==
  /\ calls = 0
  /\ StartCallOk

\* the call that ran alone has returned; two callers are about to call
Fork ==
  /\ turn = 0
  /\ pc = "idle"
  /\ calls = 1
  /\ turn' = 1
  /\ other' = NotCalled
  /\ pc' = NotCalled.pc
  /\ pageToken' = NotCalled.pageToken
  /\ graphPlan' = NotCalled.graphPlan
  /\ scan' = NotCalled.scan
  /\ result' = NotCalled.result
  /\ calls' = NotCalled.calls
  /\ fetchLog' = NotCalled.fetchLog
  /\ predLog' = NotCalled.predLog
  /\ scansRun' = NotCalled.scansRun
  /\ UNCHANGED <<overlapped, history, Environment, codecVars, compilerVars, functionVars>>

\* mutant: pagesFetched and scannedItems are shared by the calls
ResumedScan_SharedCounters(ctx) ==
  IF ctx.scan = NoScan \/ scan = NoScan THEN ctx.scan
  ELSE [ctx.scan EXCEPT !.pagesFetched = scan.pagesFetched,
                        !.scannedItems = scan.scannedItems]

\* the locals of collectClientFilteredPages a call finds when it goes on
ResumedScan(ctx) == ctx.scan

\* the running call awaits (or has returned) and the other call goes on
Switch ==
  /\ turn \in {1, 2}
  /\ turn' = 3 - turn
  /\ other' = Locals
  /\ pc' = other.pc
  /\ pageToken' = other.pageToken
  /\ graphPlan' = other.graphPlan
  /\ scan' = ResumedScan(other)
  /\ result' = other.result
  /\ calls' = other.calls
  /\ fetchLog' = other.fetchLog
  /\ predLog' = other.predLog
  /\ scansRun' = other.scansRun
  /\ overlapped' = (overlapped \/ (/\ pc # "idle" /\ other.pc # "idle"
                                   /\ Len(fetchLog) > 0 /\ Len(other.fetchLog) > 0))
  /\ UNCHANGED <<history, Environment, codecVars, compilerVars, functionVars>>

NextConcurrent ==
  \/ ConcurrentStart
  \/ FastPath
  \/ CollectCapped
  \/ CollectPage
  \/ SearchScanReturns
  \/ SearchScanEmpty
  \/ StartFallback
  \/ FallbackScanReturns
  \/ Fork
  \/ Switch

SpecConcurrent == InitConcurrent /\ [][NextConcurrent]_vars

(***************************************************************************)
(* The compiler exercise: toGraphFilter applied to a family of queries     *)
(***************************************************************************)

MaxGroup == 2

Leaves ==
  { [subject |-> Str(<<"h","e","l","l","o">>)],
    [subject |-> [any |-> <<<<"a"," ","b">>, <<"x","_","y">>>>, none |-> <<<<"s","p","a","m">>>>]],
    [subject |-> Str(<<>>)],
    [text |-> Str(<<"h","i">>)],
    [body |-> [all |-> <<<<"o","n","e">>, <<"t","w","o">>>>]],
    [exactPhrase |-> <<"h","e","l","l","o"," ","t","e","a","m">>],
    [kqlQuery |-> <<"f","r","o","m",":","b","o","b">>],
    [from |-> Str(<<"a","l","i","c","e","@","e","x","a","m","p","l","e",".","c","o","m">>)],
    [from |-> Str(<<"A","l","i","c","e">>)],
    [from |-> [all |-> <<<<"a","@","x",".","i","o">>, <<>>>>]],
    [to |-> [any |-> <<<<"b","o","b","@","e","x","a","m","p","l","e",".","c","o","m">>, <<"o","'","n","e","i","l","@","x",".","i","o">>>>]],
    [categories |-> Str(<<" ","W","o","r","k"," ">>)],
    [categories |-> [any |-> <<<<"w","o","r","k">>>>, none |-> <<<<"u","r","g","e","n","t">>>>]],
    [categories |-> Str(<<"b","o","g","u","s">>)],
    [label |-> Str(<<"P","r","o","j","e","c","t","'","s">>)],
    [hasAttachment |-> TRUE],
    [hasAttachment |-> FALSE],
    [date |-> [gte |-> <<"2","0","2","4","-","0","1","-","1","2">>, lt |-> <<"2","0","2","4","-","0","1","-","1","5">>]],
    [subject |-> Str(<<"h","e","l","l","o">>), categories |-> Str(<<"w","o","r","k">>)],
    [isRead |-> TRUE] }

GroupLeaves ==
  { [subject |-> Str(<<"h","e","l","l","o">>)],
    [text |-> Str(<<"h","i">>)],
    [exactPhrase |-> <<"h","e","l","l","o"," ","t","e","a","m">>],
    [kqlQuery |-> <<"f","r","o","m",":","b","o","b">>],
    [from |-> Str(<<"a","l","i","c","e","@","e","x","a","m","p","l","e",".","c","o","m">>)],
    [from |-> Str(<<"A","l","i","c","e">>)],
    [categories |-> Str(<<" ","W","o","r","k"," ">>)],
    [categories |-> Str(<<"b","o","g","u","s">>)],
    [label |-> Str(<<"P","r","o","j","e","c","t","'","s">>)],
    [hasAttachment |-> TRUE],
    [date |-> [gte |-> <<"2","0","2","4","-","0","1","-","1","2">>]] }

Groups == UNION { [1..n -> GroupLeaves] : n \in 0..MaxGroup }

QueryInputs ==
  Leaves
  \cup { [and |-> g] : g \in Groups }
  \cup { [or |-> g] : g \in Groups }
  \cup { [not |-> l] : l \in Leaves }
  \cup { [not |-> [and |-> g]] : g \in Groups }
  \cup { [and |-> <<[or |-> g], [hasAttachment |-> TRUE]>>] : g \in Groups }

InitCompiler ==
  /\ qPc = "input"
  /\ qIn \in QueryInputs
  /\ qOut = [none |-> TRUE]
  /\ CodecIdle
  /\ FunctionsIdle
  /\ SearchIdle
  /\ ConcurrentIdle

CompileQuery ==
  /\ qPc = "input"
  /\ qOut' = toGraphFilter(qIn)
  /\ qPc' = "compiled"
  /\ UNCHANGED <<qIn, codecVars, searchVars, functionVars, concurrentVars>>

NextCompiler == CompileQuery

SpecCompiler == InitCompiler /\ [][NextCompiler]_vars

(***************************************************************************)
(* The remote's reading of a $filter expression: eq is exact equality,     *)
(* any() is membership in the collection, and / not / or bind as in OData  *)
(***************************************************************************)

\* position i of s lies inside a quoted literal
InLiteral(s, i) == Cardinality({ j \in 1..(i - 1) : s[j] = "'" }) % 2 = 1

\* the number of parentheses open at position i of s
DepthAt(s, i) ==
  Cardinality({ j \in 1..(i - 1) : s[j] = "(" /\ ~InLiteral(s, j) })
  - Cardinality({ j \in 1..(i - 1) : s[j] = ")" /\ ~InLiteral(s, j) })

\* the places where sep stands in s outside every parenthesis and literal
SplitPoints(s, sep) ==
  { i \in 1..(Len(s) - Len(sep) + 1) :
      /\ SubSeq(s, i, i + Len(sep) - 1) = sep
      /\ ~InLiteral(s, i)
      /\ DepthAt(s, i) = 0 }

PartStart(points, sepLen, end) ==
  IF \E q \in points : q < end
  THEN (CHOOSE q \in points : q < end /\ \A r \in points : r < end => r <= q) + sepLen
  ELSE 1

\* the operands of s when it is cut at the given places
PartsAt(s, points, sepLen) ==
  { SubSeq(s, PartStart(points, sepLen, e), e - 1) : e \in points \cup {Len(s) + 1} }

FirstPoint(points) == CHOOSE q \in points : \A r \in points : q <= r

\* 'it''s' -> it's
RECURSIVE undoubleQuotes(_)
undoubleQuotes(s) ==
  IF Len(s) = 0 THEN <<>>
  ELSE IF Len(s) > 1 /\ s[1] = "'" /\ s[2] = "'" THEN <<"'">> \o undoubleQuotes(SubSeq(s, 3, Len(s)))
  ELSE <<s[1]>> \o undoubleQuotes(Tail(s))

\* the value of a literal: a quoted string, true, false
LiteralValue(s) ==
  IF s = <<"t","r","u","e">> THEN TRUE
  ELSE IF s = <<"f","a","l","s","e">> THEN FALSE
  ELSE undoubleQuotes(SubSeq(s, 2, Len(s) - 1))

\* the attribute of the model of a message that a path segment names
SegmentKey(seg) ==
  CASE seg = <<"f","r","o","m">> -> "from"
    [] seg = <<"t","o","R","e","c","i","p","i","e","n","t","s">> -> "toRecipients"
    [] seg = <<"c","c","R","e","c","i","p","i","e","n","t","s">> -> "ccRecipients"
    [] seg = <<"b","c","c","R","e","c","i","p","i","e","n","t","s">> -> "bccRecipients"
    [] seg = <<"c","a","t","e","g","o","r","i","e","s">> -> "categories"
    [] seg = <<"h","a","s","A","t","t","a","c","h","m","e","n","t","s">> -> "hasAttachments"
    [] seg = <<"r","e","c","e","i","v","e","d","D","a","t","e","T","i","m","e">> -> "receivedDateTime"
    [] seg = <<"s","u","b","j","e","c","t">> -> "subject"
    [] seg = <<"a","d","d","r","e","s","s">> -> "address"
    [] seg = <<"n","a","m","e">> -> "name"
    [] OTHER -> "unknown"

\* the value a path names: it starts at the range variable of the enclosing
\* any(), or at the message; emailAddress is the address record itself here
RECURSIVE Navigate(_, _)
Navigate(base, segs) ==
  IF Len(segs) = 0 THEN base
  ELSE IF segs[1] = <<"e","m","a","i","l","A","d","d","r","e","s","s">> THEN Navigate(base, Tail(segs))
  ELSE Navigate(base[SegmentKey(segs[1])], Tail(segs))

PathSegments(path) ==
  LET points == { i \in 1..Len(path) : path[i] = "/" }
      ends == points \cup {Len(path) + 1}
      ordered == CHOOSE f \in [1..Cardinality(ends) -> ends] :
                   \A i, j \in 1..Cardinality(ends) : i < j => f[i] < f[j]
  IN [i \in 1..Cardinality(ends) |->
        SubSeq(path, PartStart(points, 1, ordered[i]), ordered[i] - 1)]

PathValue(path, env) ==
  LET segs == PathSegments(path)
  IN IF env.var # <<>> /\ segs[1] = env.var THEN Navigate(env.val, Tail(segs))
     ELSE Navigate(env.message, segs)

S_and == <<" ","a","n","d"," ">>
S_or == <<" ","o","r"," ">>
S_not == <<"n","o","t"," ">>
S_any == <<"/","a","n","y","(">>
S_eq == <<" ","e","q"," ">>
S_ge == <<" ","g","e"," ">>
S_lt == <<" ","l","t"," ">>

\* a comparison: path eq literal, path ge date, path lt date
ComparisonHolds(s, env) ==
  IF SplitPoints(s, S_eq) # {} THEN
    LET at == FirstPoint(SplitPoints(s, S_eq))
    IN PathValue(SubSeq(s, 1, at - 1), env) = LiteralValue(SubSeq(s, at + Len(S_eq), Len(s)))
  ELSE IF SplitPoints(s, S_ge) # {} THEN
    LET at == FirstPoint(SplitPoints(s, S_ge))
    IN DateParse(PathValue(SubSeq(s, 1, at - 1), env))
         >= DateParse(SubSeq(s, at + Len(S_ge), Len(s)))
  ELSE
    LET at == FirstPoint(SplitPoints(s, S_lt))
    IN DateParse(PathValue(SubSeq(s, 1, at - 1), env))
         < DateParse(SubSeq(s, at + Len(S_lt), Len(s)))

\* whether the expression s holds of env.message (env.var is the range
\* variable of the enclosing any() and env.val its value)
RECURSIVE FilterHolds(_, _)
FilterHolds(s, env) ==
  IF SplitPoints(s, S_or) # {} THEN
    \E part \in PartsAt(s, SplitPoints(s, S_or), Len(S_or)) : FilterHolds(part, env)
  ELSE IF SplitPoints(s, S_and) # {} THEN
    \A part \in PartsAt(s, SplitPoints(s, S_and), Len(S_and)) : FilterHolds(part, env)
  ELSE IF startsWith(s, S_not) THEN ~FilterHolds(slice(s, Len(S_not)), env)
  ELSE IF s[1] = "(" THEN FilterHolds(SubSeq(s, 2, Len(s) - 1), env)
  ELSE IF SplitPoints(s, S_any) # {} THEN
    LET at == FirstPoint(SplitPoints(s, S_any))
        colon == CHOOSE i \in at..Len(s) : s[i] = ":" /\ \A j \in at..(i - 1) : s[j] # ":"
        collection == PathValue(SubSeq(s, 1, at - 1), env)
    IN \E i \in 1..Len(collection) :
         FilterHolds(SubSeq(s, colon + 2, Len(s) - 1),
                     [message |-> env.message,
                      var |-> SubSeq(s, at + Len(S_any), colon - 1),
                      val |-> collection[i]])
  ELSE ComparisonHolds(s, env)

\* what the remote returns for a compiled filter: everything when the filter
\* is empty (toGraphFilter gives null and fetchGraphPage sends no $filter)
FilterAccepts(filterStr, message) ==
  IF trim(filterStr) = <<>> THEN TRUE
  ELSE FilterHolds(trim(filterStr), [message |-> message, var |-> <<>>, val |-> <<>>])

(***************************************************************************)
(* The function exercise: mapOutlookCategory applied to a category, and    *)
(* buildQueryFilter and buildClientPredicate applied to the same query and *)
(* judged on the same message                                              *)
(***************************************************************************)

CategoryInputs ==
  { <<"W","O","R","K">>, <<"w","o","r","k">>, <<" ","W","o","r","k"," ">>, <<"W","o","r","k">>, <<"w","O","r","K"," "," ">>, <<"p","e","r","s","o","n","a","l">>, <<" ","P","E","R","S","O","N","A","L">>,
    <<"F","a","m","i","l","y">>, <<"t","r","a","v","e","l"," ">>, <<"I","m","p","o","r","t","a","n","t">>, <<"U","R","G","E","N","T">>, <<>>, <<" ">>, <<" "," "," ">>, <<"b","o","g","u","s">>,
    <<"w","o","r">>, <<"w","o","r","k","s">>, <<"w"," ","o","r","k">>, <<"w","o","r","k",",">>, <<"i","n","b","o","x">>, <<"c","o","n","s","t","r","u","c","t","o","r">>, <<" ","C","o","n","s","t","r","u","c","t","o","r"," ">>,
    <<"_","_","p","r","o","t","o","_","_">>, <<"t","o","S","t","r","i","n","g">>, <<"v","a","l","u","e","O","f">>, <<"h","a","s","O","w","n","P","r","o","p","e","r","t","y">> }

\* messages next to those of the mailbox: a sender written in capitals with
\* two categories, and a sender whose address holds another address
Shout ==
  [Msg("X", <<"S","t","a","t","u","s">>, <<"a","l","l"," ","f","i","n","e">>, Addr(<<"A","l","i","c","e","@","E","x","a","m","p","l","e",".","C","O","M">>, <<"A","L","I","C","E">>),
       <<<<"W","o","r","k">>, <<"U","r","g","e","n","t">>>>, TRUE, <<"2","0","2","4","-","0","1","-","1","2","T","0","0",":","0","0",":","0","0","Z">>)
     EXCEPT !.ccRecipients = <<Bob>>]

Malice ==
  Msg("Y", <<"O","f","f","e","r">>, <<"b","u","y"," ","n","o","w">>, Addr(<<"m","a","l","i","c","e","@","e","x","a","m","p","l","e",".","c","o","m">>, <<"M","a","l">>),
      <<>>, FALSE, <<"2","0","2","4","-","0","1","-","1","4","T","2","3",":","5","9",":","5","9","Z">>)

Corpus == { Mailbox[id] : id \in DOMAIN Mailbox } \cup {Shout, Malice}

\* leaves built only from server-expressible fields
ServerLeaves ==
  { [from |-> Str(<<"a","l","i","c","e","@","e","x","a","m","p","l","e",".","c","o","m">>)],
    [from |-> Str(<<"B","o","b","@","E","x","a","m","p","l","e",".","c","o","m">>)],
    [to |-> Str(<<"b","o","b","@","e","x","a","m","p","l","e",".","c","o","m">>)],
    [to |-> [any |-> <<<<"a","l","i","c","e","@","e","x","a","m","p","l","e",".","c","o","m">>, <<"n","o","b","o","d","y","@","e","x","a","m","p","l","e",".","c","o","m">>>>]],
    [cc |-> Str(<<"b","o","b","@","e","x","a","m","p","l","e",".","c","o","m">>)],
    [bcc |-> Str(<<"b","o","b","@","e","x","a","m","p","l","e",".","c","o","m">>)],
    [categories |-> Str(<<"w","o","r","k">>)],
    [categories |-> [any |-> <<<<"T","r","a","v","e","l">>, <<" ","p","e","r","s","o","n","a","l"," ">>>>]],
    [categories |-> [any |-> <<<<"w","o","r","k">>>>, none |-> <<<<"u","r","g","e","n","t">>>>]],
    [to |-> [all |-> <<<<"b","o","b","@","e","x","a","m","p","l","e",".","c","o","m">>>>, none |-> <<<<"b","o","b","@","e","x","a","m","p","l","e",".","c","o","m">>>>]],
    [hasAttachment |-> TRUE],
    [hasAttachment |-> FALSE],
    [date |-> [gte |-> <<"2","0","2","4","-","0","1","-","1","2">>, lt |-> <<"2","0","2","4","-","0","1","-","1","5">>]],
    [date |-> [lt |-> <<"2","0","2","4","-","0","1","-","1","2">>]] }

ServerGroups == UNION { [1..n -> ServerLeaves] : n \in 1..MaxGroup }

ServerQueries ==
  ServerLeaves
  \cup { [and |-> g] : g \in ServerGroups }
  \cup { [or |-> g] : g \in ServerGroups }
  \cup { [not |-> l] : l \in ServerLeaves }

\* nodes that carry a logical key together with leaf fields
SiblingNodes ==
  { [and |-> <<[from |-> Str(<<"a","l","i","c","e","@","e","x","a","m","p","l","e",".","c","o","m">>)]>>, subject |-> Str(<<"h","e","l","l","o">>)],
    [or |-> <<[from |-> Str(<<"a","l","i","c","e","@","e","x","a","m","p","l","e",".","c","o","m">>)], [hasAttachment |-> TRUE]>>,
     kqlQuery |-> <<"f","r","o","m",":","b","o","b">>],
    [not |-> [categories |-> Str(<<"w","o","r","k">>)], body |-> Str(<<"h","e","l","l","o">>)],
    [and |-> <<[hasAttachment |-> TRUE]>>, categories |-> Str(<<"w","o","r","k">>)],
    [or |-> <<[subject |-> Str(<<"h","e","l","l","o">>)]>>, from |-> Str(<<"a","l","i","c","e","@","e","x","a","m","p","l","e",".","c","o","m">>)],
    [not |-> [from |-> Str(<<"a","l","i","c","e","@","e","x","a","m","p","l","e",".","c","o","m">>)], hasAttachment |-> TRUE,
     isRead |-> TRUE] }

\* categories leaves that hold a term that is no category
InvalidCategoryLeaves ==
  { [categories |-> Str(<<"b","o","g","u","s">>)],
    [categories |-> [any |-> <<<<"b","o","g","u","s">>, <<"n","o","p","e">>>>]],
    [categories |-> [all |-> <<<<"b","o","g","u","s">>>>]],
    [categories |-> [none |-> <<<<"b","o","g","u","s">>>>]],
    [categories |-> [any |-> <<<<"w","o","r","k">>, <<"b","o","g","u","s">>>>]],
    [categories |-> [all |-> <<<<"w","o","r","k">>, <<"b","o","g","u","s">>>>]],
    [categories |-> [any |-> <<<<"w","o","r","k">>>>, none |-> <<<<"b","o","g","u","s">>, <<"u","r","g","e","n","t">>>>]],
    [categories |-> [none |-> <<<<"i","n","b","o","x">>, <<"t","r","a","v","e","l">>>>]] }

LogicalKeys == {"and", "or", "not"}

\* the node with its sibling leaf fields removed
LogicalOnly(node) == [k \in DOMAIN node \cap LogicalKeys |-> node[k]]

FunctionInputs ==
  { [fn |-> "mapOutlookCategory", category |-> c] : c \in CategoryInputs }
  \cup { [fn |-> "agreement", query |-> q, message |-> m] : q \in ServerQueries, m \in Corpus }
  \cup { [fn |-> "compile", query |-> q, message |-> m] : q \in SiblingNodes \cup InvalidCategoryLeaves, m \in Corpus }

InitFunctions ==
  /\ fPc = "input"
  /\ fIn \in FunctionInputs
  /\ fOut = [none |-> TRUE]
  /\ CodecIdle
  /\ CompilerIdle
  /\ SearchIdle
  /\ ConcurrentIdle

\* mapOutlookCategory(category) returns or throws
MapCategory ==
  /\ fPc = "input"
  /\ fIn.fn = "mapOutlookCategory"
  /\ fOut' = [value |-> mapOutlookCategory(fIn.category)]
  /\ fPc' = "applied"
  /\ UNCHANGED <<fIn, codecVars, compilerVars, searchVars, concurrentVars>>

\* the query is compiled both ways and both results judge the message
JudgeMessage ==
  /\ fPc = "input"
  /\ fIn.fn = "agreement"
  /\ fOut' = [filter |-> buildQueryFilter(fIn.query),
              remote |-> FilterAccepts(buildQueryFilter(fIn.query), fIn.message),
              predicate |-> buildClientPredicate(fIn.query, fIn.message)]
  /\ fPc' = "applied"
  /\ UNCHANGED <<fIn, codecVars, compilerVars, searchVars, concurrentVars>>

\* the three compilers applied to a node and to a message
CompileNode ==
  /\ fPc = "input"
  /\ fIn.fn = "compile"
  /\ fOut' = [plan |-> toGraphFilter(fIn.query),
              filter |-> buildQueryFilter(fIn.query),
              predicate |-> buildClientPredicate(fIn.query, fIn.message)]
  /\ fPc' = "applied"
  /\ UNCHANGED <<fIn, codecVars, compilerVars, searchVars, concurrentVars>>

NextFunctions == MapCategory \/ JudgeMessage \/ CompileNode

SpecFunctions == InitFunctions /\ [][NextFunctions]_vars

(***************************************************************************)
(* Claims about the pagination token codec (checked under SpecCodec)       *)
(***************************************************************************)

\* what a faithful round trip of the parameters cIn returns
RoundTripOf(in) ==
  [skipToken |-> in.skipToken, offset |-> in.offset, mode |-> in.mode, legacy |-> FALSE]

\* C3 as stated: for every skipToken (absent or any string), every offset >= 0
\* and every mode, decoding the encoded token returns legacy = false and the
\* same skipToken, offset and mode.
C3_RoundTripEveryInput ==
  (cPc = "decoded" /\ cIn.offset >= 0) => cOut = RoundTripOf(cIn)

\* the parameters the decoder accepts back: the cursor is absent or a
\* non-blank string other than the first-page sentinel, the mode is absent or
\* a non-empty string
RoundTripDomain(in) ==
  /\ in.offset >= 0
  /\ \/ in.skipToken = Undefined
     \/ trim(in.skipToken) # <<>> /\ in.skipToken # FIRST_PAGE_SKIP_TOKEN
  /\ in.mode = Undefined \/ Len(in.mode) > 0

\* C3 amended: for every skipToken that is absent or a string that is not
\* blank and not the first-page sentinel, every integer offset >= 0 and every
\* mode that is absent or a non-empty string, decoding the encoded token
\* returns legacy = false and the same skipToken, offset and mode.
C3_RoundTrip ==
  (cPc = "decoded" /\ RoundTripDomain(cIn)) => cOut = RoundTripOf(cIn)

\* C3 witness: the round trip of the repository's unit test, with the token
\* that the encoder produces for it
C3_Witness ==
  /\ cPc = "decoded"
  /\ cIn.skipToken = <<"a","b","c","1","2","3">>
  /\ cIn.offset = 5
  /\ cIn.mode = S_search
  /\ cTok = PREFIX \o <<"e","y","J","2","I","j","o","y","L","C","J","z","a","2","l","w","V","G","9","r","Z","W","4","i","O","i","J","h","Y","m","M","x","M","j","M","i","L","C","J","v","Z","m","Z","z","Z","X","Q","i","O","j","U","s","I","m","1","v","Z","G","U","i","O","i","J","z","Z","W","F","y","Y","2","g","i","f","Q">>
  /\ cOut.legacy = FALSE

\* C4: decodeNextPageToken never throws; undefined or empty input gives
\* offset 0, legacy true and no skipToken; a string without the 'v2:' prefix,
\* and a 'v2:' string whose payload does not parse, has a version other than
\* 2, an empty or non-string skipToken or a negative or non-integer offset,
\* gives skipToken = the raw input, offset 0, legacy true.
C4_LegacyDegradation ==
  (cPc = "rawdecoded") =>
    /\ cOut # Thrown
    /\ cIn.kind \in {"undefined", "empty"} =>
         cOut = [skipToken |-> Undefined, offset |-> 0, mode |-> Undefined, legacy |-> TRUE]
    /\ cIn.kind \in {"noprefix", "badparse", "badversion", "badskip", "badoffset"} =>
         /\ cOut.skipToken = cIn.raw
         /\ cOut.offset = 0
         /\ cOut.legacy = TRUE

\* C4 witness: a 'v2:' token whose payload carries a malformed offset has
\* been decoded to the legacy reading
C4_Witness ==
  /\ cPc = "rawdecoded"
  /\ cIn.kind = "badoffset"
  /\ startsWith(cIn.raw, PREFIX)
  /\ cOut.legacy = TRUE
  /\ cOut.skipToken = cIn.raw

\* the corpus is labelled consistently: only "noprefix" tokens lack the prefix,
\* and every well-formed payload is read as a v2 token
CorpusSanity ==
  (cPc = "rawdecoded") =>
    /\ cIn.kind = "noprefix" => ~startsWith(cIn.raw, PREFIX)
    /\ cIn.kind \in {"badparse", "badversion", "badskip", "badoffset", "valid"} =>
         startsWith(cIn.raw, PREFIX)
    /\ cIn.kind = "valid" => cOut # Thrown /\ cOut.legacy = FALSE

(***************************************************************************)
(* Properties of the search executor                                       *)
(***************************************************************************)

Range(s) == { s[i] : i \in 1..Len(s) }

Take(s, n) == SubSeq(s, 1, IF n < Len(s) THEN n ELSE Len(s))

NoCaps == opts.maxPages = CapNull /\ opts.maxItemsScanned = CapNull

\* the predicate of the caller's query on a raw item of the remote
Accepts(id) == buildClientPredicate(query, FetchedView(id, effectiveIncludeBody))

IsPrefix(s, t) == Len(s) <= Len(t) /\ SubSeq(t, 1, Len(s)) = s

\* the accepted items that follow the item last in the source, in source order
AcceptedAfter(source, last) ==
  LET flat == ConcatAll(source)
      pos == CHOOSE k \in 1..Len(flat) : flat[k] = last
  IN SelectSeq(SubSeq(flat, pos + 1, Len(flat)), Accepts)

\* what C1 asks of the call that follows the call prev: it returns accepted
\* items that follow the last item of prev, in source order and none skipped,
\* all of them when it returns no further token, and scans no item prev scanned
ResumesAfter(prev, next) ==
  LET following == AcceptedAfter(remote[prev.fetchLog[1].kind], prev.messages[Len(prev.messages)])
  IN /\ next.status = "ok"
     /\ Len(next.messages) <= opts.pageSize
     /\ IsPrefix(next.messages, following)
     /\ next.nextPageToken = Undefined => next.messages = following
     /\ \A a \in Range(next.predLog), b \in Range(prev.predLog) : a.id # b.id

\* C1: for an unchanged source, a fixed query and a fixed pageSize, when the
\* search scan of a call fills its buffer inside a page and the call returns
\* a mid-page token, the call resumed with that token returns exactly the
\* accepted items that follow the last returned item in source order, and
\* applies the predicate to no raw item the earlier call scanned (stated for
\* calls without caps, which may cut a call short).
C1_MidPageResume ==
  \A i \in 2..Len(history) :
    (NoCaps /\ history[i - 1].tokenKind = "mid" /\ history[i - 1].scansRun = <<"search">>) =>
      ResumesAfter(history[i - 1], history[i])

\* C2: a call made with the nextPageToken of the previous call returns no
\* message that the previous call returned, for every kind of token and
\* along the whole chain of resumed calls.
C2_NoRepeatedMessage ==
  \A i \in 2..Len(history) :
    history[i].status = "ok" =>
      Range(history[i].messages) \cap Range(history[i - 1].messages) = {}

\* C5: whenever a scan ends because maxItemsScanned was exceeded or maxPages
\* was reached, the call returns the items collected so far and no
\* nextPageToken, whether or not the remote offered a next cursor.
C5_CappedNoToken ==
  \A i \in 1..Len(history) :
    (Len(history[i].scansRun) > 0 /\ history[i].lastScan.capHit) =>
      /\ history[i].status = "ok"
      /\ history[i].nextPageToken = Undefined
      /\ history[i].messages = history[i].lastScan.collected

\* C5 witness: a capped scan that had collected an item and whose last page
\* came with a next cursor has returned
C5_Witness ==
  \E i \in 1..Len(history) :
    /\ Len(history[i].scansRun) > 0
    /\ history[i].lastScan.capHit
    /\ history[i].lastScan.lastNextSkipToken # Undefined
    /\ Len(history[i].messages) > 0
    /\ history[i].nextPageToken = Undefined

\* C6: in one call with maxPages = P and maxItemsScanned = N the remote page
\* fetches never exceed P and the raw items the predicate is applied to never
\* exceed N, the search scan and the fallback scan counted together.
C6_PerCallCaps ==
  /\ opts.maxPages # CapNull => Len(fetchLog) <= opts.maxPages
  /\ opts.maxItemsScanned # CapNull => Len(predLog) <= opts.maxItemsScanned

\* one step of the executor, as C7 constrains it
C7_Step ==
  /\ Len(scansRun') <= 2
  /\ (scansRun' # scansRun /\ Len(scansRun') > 1) =>
       /\ scansRun = <<"search">>
       /\ scansRun' = <<"search", "filter">>
       /\ ~scan.capHit
       /\ Len(scan.collected) = 0
       /\ scan.midPageToken = Undefined
       /\ scan.lastNextSkipToken = Undefined
       /\ buildQueryFilter(query) # ThrowStr
       /\ trim(buildQueryFilter(query)) # <<>>
       /\ scan'.search = Undefined
       /\ scan'.filter = trim(buildQueryFilter(query))
  /\ (pc = "scanEnd" /\ scan.mode = "filter") =>
       /\ pc' = "idle"
       /\ result'.status = "ok"
       /\ result'.messages = scan.collected
       /\ (result'.nextPageToken = Undefined) <=>
            (scan.capHit
             \/ (scan.midPageToken = Undefined /\ scan.lastNextSkipToken = Undefined))

\* C7: the fallback scan runs at most once per call, and only when the search
\* scan ended uncapped with zero accepted items, no mid-page token and no
\* remote next cursor and the query compiles to a non-empty structural
\* filter; it uses that filter instead of the search expression; its outcome
\* is the result of the call, and no third scan is started.
C7_SingleFallback == [][C7_Step]_vars

\* C7 witness: a call whose fallback scan found items has returned them
C7_Witness ==
  \E i \in 1..Len(history) :
    /\ history[i].scansRun = <<"search", "filter">>
    /\ Len(history[i].messages) > 0
    /\ history[i].fetchLog[Len(history[i].fetchLog)].filter # Undefined

\* the kind of request the fast path sends for the caller's query
FastKind == IF PlanOf(query).filter = Null THEN "list" ELSE "filter"

FastPathQuery == PlanOf(query) # ThrownPlan /\ ~PlanOf(query).hasFullText

\* C8: without full-text intent (or without a query) a call issues exactly one
\* remote fetch, with the compiled filter and the cursor decoded from the
\* page token, applies no predicate and returns the items of that page in
\* the order of the remote.
C8_FastPathSingleFetch ==
  FastPathQuery =>
    \A i \in 1..Len(history) :
      /\ Len(history[i].fetchLog) = 1
      /\ history[i].status = "ok" <=> ~history[i].fetchLog[1].rejected
      /\ history[i].fetchLog[1].search = Undefined
      /\ history[i].fetchLog[1].filter = OrUndefined(PlanOf(query).filter)
      /\ history[i].fetchLog[1].skipToken =
           decodeNextPageToken(history[i].pageToken).skipToken
      /\ history[i].predLog = <<>>
      /\ history[i].scansRun = <<>>
      /\ history[i].status = "ok" => history[i].messages = remote[FastKind][i]

\* C8 witness: a resumed fast-path call with a compiled filter has returned a
\* page that holds items
C8_Witness ==
  /\ FastPathQuery
  /\ \E i \in 2..Len(history) :
       /\ history[i].status = "ok"
       /\ history[i].pageToken # Undefined
       /\ history[i].fetchLog[1].filter # Undefined
       /\ Len(history[i].messages) > 1

\* C9 as claimed: on the fast path, when the page comes with a next cursor c,
\* the returned nextPageToken is a 'v2:' token that decodeNextPageToken reads
\* back with legacy = false, skipToken = c and offset 0; without a next
\* cursor no token is returned.
C9_EncodedCursor ==
  FastPathQuery =>
    \A i \in { k \in 1..Len(history) : history[k].status = "ok" } :
      IF i < Len(remote[FastKind])
      THEN /\ startsWith(history[i].nextPageToken, PREFIX)
           /\ decodeNextPageToken(history[i].nextPageToken) =
                [skipToken |-> CursorOf(FastKind, i + 1), offset |-> 0,
                 mode |-> Undefined, legacy |-> FALSE]
      ELSE history[i].nextPageToken = Undefined

\* C9 as the code has it: on the fast path, when the page comes with a next
\* cursor c, the returned nextPageToken is c itself, which
\* decodeNextPageToken reads back with legacy = true, skipToken = c and
\* offset 0; without a next cursor no token is returned.
C9_RawCursor ==
  FastPathQuery =>
    \A i \in { k \in 1..Len(history) : history[k].status = "ok" } :
      IF i < Len(remote[FastKind])
      THEN /\ history[i].nextPageToken = CursorOf(FastKind, i + 1)
           /\ decodeNextPageToken(history[i].nextPageToken) =
                [skipToken |-> CursorOf(FastKind, i + 1), offset |-> 0,
                 mode |-> Undefined, legacy |-> TRUE]
      ELSE history[i].nextPageToken = Undefined

\* C9 witness: a fast-path call has returned the cursor of the next page, and
\* the last call of the chain no token
C9_Witness ==
  /\ FastPathQuery
  /\ Len(history) > 1
  /\ history[1].nextPageToken = CursorOf(FastKind, 2)
  /\ history[Len(history)].status = "ok"
  /\ history[Len(history)].nextPageToken = Undefined

\* C14: every validation failure of a query is raised before the first remote
\* fetch of the call: no call fetches and afterwards fails with a validation
\* error.
C14_ValidationBeforeFetch ==
  (pc = "idle" /\ result.status = "error" /\ result.error = "validation") =>
    fetchLog = <<>>

\* the fetches of the running call that the remote rejected
RejectedFetches == { i \in 1..Len(fetchLog) : fetchLog[i].rejected }

\* C15: when a remote page fetch fails at any point of a call (first page,
\* later page, page of the fallback scan) the call fails with that same
\* error, hands back no items and no nextPageToken, issues no further fetch
\* and no retry, and executeQuery rethrows the error unchanged.
C15_FetchFailurePropagates ==
  \A i \in RejectedFetches :
    /\ i = Len(fetchLog)
    /\ \A j \in 1..(i - 1) : ~fetchLog[j].rejected
    /\ pc = "idle"
    /\ result.status = "error"
    /\ result.error = "remote"
    /\ result.cause = GraphError(RequestOf(fetchLog[i]))
    /\ result.messages = <<>>
    /\ result.nextPageToken = Undefined
    /\ executeQuery(result) = result

\* C15 witness: the fetch of the second page failed after the scan had
\* collected an item from the first
C15_Witness ==
  /\ Len(fetchLog) > 1
  /\ fetchLog[Len(fetchLog)].rejected
  /\ Len(scan.collected) > 0
  /\ result.status = "error"

\* C16: every remote fetch of a call whose compiled query has
\* requireBodyClientFilter = true requests the body field, whether the caller
\* passed includeBody true or false, in the search scan and in the fallback
\* scan alike.
C16_BodyForced ==
  (graphPlan # ThrownPlan /\ graphPlan.requireBodyClientFilter) =>
    \A i \in 1..Len(fetchLog) : "body" \in fetchLog[i].select

\* C16 witness: the caller passed includeBody = false, the query needs the
\* body, and the call has fetched in its search scan and in its fallback scan
C16_Witness ==
  /\ pc = "scanEnd"
  /\ graphPlan.requireBodyClientFilter
  /\ ~opts.includeBody
  /\ \E i \in 1..Len(fetchLog) : fetchLog[i].kind = "search"
  /\ \E i \in 1..Len(fetchLog) : fetchLog[i].kind = "filter"

\* C17: every message returned on the full-text path, from the search scan
\* or from the fallback scan, was accepted by the client predicate compiled
\* from the whole query.
C17_ReturnedWereAccepted ==
  (pc = "idle" /\ result.status = "ok" /\ useClientFiltering) =>
    \A i \in 1..Len(result.messages) :
      buildClientPredicate(query, FetchedView(result.messages[i], effectiveIncludeBody))

\* C17 witness: a call on the full-text path returned messages of its
\* fallback scan, which had applied the predicate to more than it returned
C17_Witness ==
  /\ pc = "idle"
  /\ result.status = "ok"
  /\ useClientFiltering
  /\ scansRun = <<"search", "filter">>
  /\ Len(result.messages) > 0
  /\ Len(predLog) > Len(result.messages)

\* the index (from 0) of an item in a page as the remote delivered it
RawIndex(page, id) == (CHOOSE k \in 1..Len(page) : page[k] = id) - 1

\* the page the remote delivered for an entry of fetchLog
DeliveredPage(entry) == remote[entry.kind][PageIndex(RequestOf(entry))]

\* C19: when the buffer reaches pageSize at the raw item with index i of a
\* page as the remote delivered it, the returned token decodes to the cursor
\* that was used to fetch that page (none for the first page) and to offset
\* i + 1, also when the call started at a non-zero offset inside that page.
C19_MidPageToken ==
  (pc = "idle" /\ result.status = "ok" /\ useClientFiltering
   /\ Len(result.messages) = opts.pageSize) =>
    LET last == fetchLog[Len(fetchLog)]
        i == RawIndex(DeliveredPage(last), result.messages[Len(result.messages)])
        decoded == decodeNextPageToken(result.nextPageToken)
    IN /\ result.nextPageToken # Undefined
       /\ ~decoded.legacy
       /\ decoded.skipToken = last.skipToken
       /\ decoded.offset = i + 1

\* C19 witness: a call that started at a non-zero offset filled its buffer
\* inside the page it started in
C19_Witness ==
  /\ pc = "idle"
  /\ result.status = "ok"
  /\ useClientFiltering
  /\ Len(result.messages) = opts.pageSize
  /\ Len(fetchLog) = 1
  /\ decodeNextPageToken(pageToken).offset > 0
  /\ decodeNextPageToken(result.nextPageToken).offset > decodeNextPageToken(pageToken).offset + 1

\* the ids of the items the predicate was applied to in the step
AppliedInStep ==
  [k \in 1..(Len(predLog') - Len(predLog)) |-> predLog'[Len(predLog) + k].id]

\* the number of raw items the call has to skip in the page it fetches now
SkipOfFetch == IF Len(fetchLog) = 0 THEN decodeNextPageToken(pageToken).offset ELSE 0

\* a step of CollectPage obeys the offset rule; an empty page is held to the
\* second half of the rule only when emptyToo
C20_Step(emptyToo) ==
  (pc = "scan" /\ Len(fetchLog') = Len(fetchLog) + 1 /\ ~fetchLog'[Len(fetchLog')].rejected) =>
    LET entry == fetchLog'[Len(fetchLog')]
        page == DeliveredPage(entry)
        expected == SubSeq(page, SkipOfFetch + 1, Len(page))
        stopped == scan'.capHit \/ Len(scan'.collected) = opts.pageSize
        nextCursor == fetchGraphPage(RequestOf(entry)).nextSkipToken
    IN /\ Len(AppliedInStep) <= Len(expected)
       /\ AppliedInStep = SubSeq(expected, 1, Len(AppliedInStep))
       /\ ~stopped => AppliedInStep = expected
       /\ (/\ pageToken # Undefined
           /\ Len(fetchLog) = 0
           /\ SkipOfFetch >= Len(page)
           /\ nextCursor # Undefined
           /\ (emptyToo \/ Len(page) > 0)) =>
            /\ pc' = "scan"
            /\ scan'.currentSkipToken = nextCursor

\* C20 as stated: a resumed scan skips exactly the first offset raw items of
\* the first page it fetches and scans every item of every later page of the
\* same call from index 0; with an offset equal to or larger than the length
\* of the first page nothing of that page is scanned, and the scan goes on
\* with the next page when the remote gave a next cursor.
C20_OffsetFirstPageOnly == [][C20_Step(TRUE)]_vars

\* C20 amended: the same, the second half for a first page that is not empty
\* (a page of zero items ends the scan, whatever cursor came with it); going
\* on means the next loop step runs with the next cursor.
C20_OffsetNonEmptyPage == [][C20_Step(FALSE)]_vars

\* C20 witness: a call resumed at an offset that is the length of its first
\* page applied the predicate to no item of that page and went on with the
\* next page from its first item
C20_Witness ==
  /\ pc = "idle"
  /\ result.status = "ok"
  /\ Len(fetchLog) = 2
  /\ Len(predLog) > 0
  /\ pageToken # Undefined
  /\ LET first == DeliveredPage(fetchLog[1])
         later == DeliveredPage(fetchLog[2])
         skip == decodeNextPageToken(pageToken).offset
     IN /\ Len(first) > 0
        /\ skip >= Len(first)
        /\ fetchLog[2].skipToken = fetchGraphPage(RequestOf(fetchLog[1])).nextSkipToken
        /\ predLog[1].id = later[1]

\* the next cursor the remote gave with the page of the last fetch of the call
LastNextCursor == fetchGraphPage(RequestOf(fetchLog[Len(fetchLog)])).nextSkipToken

\* the call is over and its last scan ended without a cap and without a
\* mid-page token
EndedAtBoundary ==
  /\ pc = "idle"
  /\ result.status = "ok"
  /\ useClientFiltering
  /\ ~scan.capHit
  /\ scan.midPageToken = Undefined

\* C21: when the scan that produces the result ends uncapped and without a
\* mid-page token, the call returns the encoding of the next cursor of the
\* last fetched page with offset 0 if that page came with a next cursor, and
\* no token if it came with none.
C21_BoundaryToken ==
  EndedAtBoundary =>
    IF LastNextCursor # Undefined
    THEN /\ result.nextPageToken # Undefined
         /\ startsWith(result.nextPageToken, PREFIX)
         /\ ~decodeNextPageToken(result.nextPageToken).legacy
         /\ decodeNextPageToken(result.nextPageToken).skipToken = LastNextCursor
         /\ decodeNextPageToken(result.nextPageToken).offset = 0
    ELSE result.nextPageToken = Undefined

\* C21 witness: a scan ended on a page that came with a next cursor, and the
\* call that followed that cursor ended on a page without one
C21_Witness ==
  /\ EndedAtBoundary
  /\ LastNextCursor = Undefined
  /\ result.nextPageToken = Undefined
  /\ Len(result.messages) > 0
  /\ Len(history) > 1
  /\ history[Len(history) - 1].tokenKind = "boundary"
  /\ pageToken = history[Len(history) - 1].nextPageToken

\* the kind of remote query a request is: a search, or a filter (the fallback
\* scan and the fast path with a compiled filter), or the plain listing
KindSent(entry) ==
  IF entry.search # Undefined THEN "search"
  ELSE IF entry.filter # Undefined THEN "filter" ELSE "list"

\* C26: a call resumed with a token whose mode is 'filter' fetches with the
\* structural filter, a call resumed with a token whose mode is 'search'
\* fetches with the search expression, and a cursor carried in a token is
\* only sent back together with the kind of remote query that produced it.
C26_ModeHonoured ==
  (pageToken # Undefined /\ Len(fetchLog) > 0) =>
    LET decoded == decodeNextPageToken(pageToken)
        first == fetchLog[1]
    IN /\ decoded.mode = S_filter => KindSent(first) = "filter"
       /\ decoded.mode = S_search => KindSent(first) = "search"
       /\ decoded.skipToken # Undefined =>
            \E i \in 1..Len(remote[KindSent(first)]) :
              decoded.skipToken = CursorOf(KindSent(first), i)

\* the message attribute the predicate reads for a structural key of a leaf
AttributeOf(key) ==
  CASE key = "hasAttachment" -> "hasAttachments"
    [] key = "isRead" -> "isRead"
    [] key = "importance" -> "importance"
    [] key = "date" -> "receivedDateTime"
    [] key = "from" -> "from"
    [] key = "to" -> "toRecipients"
    [] key = "cc" -> "ccRecipients"
    [] key = "bcc" -> "bccRecipients"
    [] key = "categories" -> "categories"
    [] key = "label" -> "categories"

StructuralKeys ==
  {"hasAttachment", "isRead", "importance", "date", "from", "to", "cc", "bcc",
   "categories", "label"}

\* the attributes the predicate of a query reads for its structural constraints
RECURSIVE AttributesRead(_)
AttributesRead(node) ==
  IF Has(node, "and") THEN UNION { AttributesRead(node.and[i]) : i \in 1..Len(node.and) }
  ELSE IF Has(node, "or") THEN UNION { AttributesRead(node.or[i]) : i \in 1..Len(node.or) }
  ELSE IF Has(node, "not") THEN AttributesRead(node.not)
  ELSE { AttributeOf(k) : k \in DOMAIN node \cap StructuralKeys }

\* the message with every attribute, the body only when it was asked for
WholeView(id, includeBody) ==
  [k \in DOMAIN Mailbox[id] \ (IF includeBody THEN {} ELSE {"body"}) |-> Mailbox[id][k]]

\* C27: every message attribute the client predicate reads to decide a
\* structural constraint is among the fields requested from the remote for
\* the pages the predicate filters, so no item is decided otherwise than on
\* the message with all its attributes.
C27_PredicateFieldsSelected ==
  (useClientFiltering /\ pc # "fast") =>
    /\ \A i \in 1..Len(fetchLog) : AttributesRead(query) \subseteq fetchLog[i].select
    /\ \A i \in 1..Len(predLog) :
         buildClientPredicate(query, FetchedView(predLog[i].id, effectiveIncludeBody))
           = buildClientPredicate(query, WholeView(predLog[i].id, effectiveIncludeBody))

\* the accepted items of the pages the remote serves for a kind of query
AcceptedOf(kind) == SelectSeq(ConcatAll(remote[kind]), Accepts)

\* the stream a full-text chain draws from: the search results, or those of
\* the structural filter when the search results hold no accepted item
SourceAccepted ==
  IF AcceptedOf("search") # <<>> \/ ~HasFallbackFilter(query) THEN AcceptedOf("search")
  ELSE AcceptedOf("filter")

\* the messages of the calls made so far, concatenated
Returned == ConcatAll([i \in 1..Len(history) |-> history[i].messages])

\* a chain of calls without caps that ran until a call returned no token
ChainEnded ==
  /\ pc = "idle"
  /\ NoCaps
  /\ useClientFiltering
  /\ Len(history) > 0
  /\ \A i \in 1..Len(history) : history[i].status = "ok"
  /\ history[Len(history)].nextPageToken = Undefined

\* C28: with no caps, a fixed query and pageSize and an unchanged source,
\* following nextPageToken from a first full-text call until a call returns
\* no token yields, concatenated in order, every source item the predicate
\* accepts.
C28_ChainComplete == ChainEnded => Returned = SourceAccepted

\* C29: a call on the full-text path with pageSize >= 1 never returns more
\* than pageSize messages, and a scan produces a mid-page token exactly when
\* the number of collected messages reached pageSize while it scanned a
\* fetched page.
C29_BoundedBuffer ==
  /\ (pc = "idle" /\ useClientFiltering /\ result.status = "ok") =>
       Len(result.messages) <= opts.pageSize
  /\ (scan # NoScan /\ pc \in {"scan", "scanEnd", "idle"}) =>
       /\ Len(scan.collected) <= opts.pageSize
       /\ scan.midPageToken # Undefined <=>
            (Len(scan.collected) = opts.pageSize /\ Len(predLog) > 0
             /\ predLog[Len(predLog)].id = scan.collected[Len(scan.collected)])

\* C29 witness: a call returned a full buffer with a mid-page token after its
\* scan had rejected an item and gone through more than one page
C29_Witness ==
  /\ pc = "idle"
  /\ useClientFiltering
  /\ result.status = "ok"
  /\ opts.pageSize > 1
  /\ Len(result.messages) = opts.pageSize
  /\ scan.midPageToken # Undefined
  /\ result.nextPageToken = scan.midPageToken
  /\ Len(fetchLog) > 1
  /\ Len(predLog) > opts.pageSize

\* C30: against a remote whose chain of next cursors is finite, every call
\* that was started terminates, with caps or without.
C30_CallTerminates == (pc # "idle") ~> (pc = "idle")

\* C30 witness: a call without caps, resumed at an offset that lies at or
\* past the end of its first page, went on through pages in which no item
\* was accepted and has returned
C30_Witness ==
  /\ pc = "idle"
  /\ useClientFiltering
  /\ NoCaps
  /\ result.status = "ok"
  /\ pageToken # Undefined
  /\ Len(fetchLog) > 1
  /\ decodeNextPageToken(pageToken).offset >= Len(DeliveredPage(fetchLog[1]))
  /\ Len(DeliveredPage(fetchLog[1])) > 0
  /\ Len(predLog) > 0
  /\ Len(result.messages) = 0

(***************************************************************************)
(* Properties of concurrent calls (checked under SpecConcurrent)           *)
(***************************************************************************)

\* C18: within one call each fetch is answered before the next is issued (a
\* stretch of a call between two awaits issues at most one fetch), and two
\* concurrent calls share no mutable state: under every interleaving each
\* call ends as the same call ends when it runs alone against the same remote.
C18_Step ==
  /\ (turn' = turn /\ Len(fetchLog') > Len(fetchLog)) =>
       /\ Len(fetchLog') = Len(fetchLog) + 1
       /\ SubSeq(fetchLog', 1, Len(fetchLog)) = fetchLog
  /\ \A i \in 2..Len(history') : history'[i] = history'[1]

C18_Isolation == [][C18_Step]_vars

\* C18 witness: both concurrent calls have returned, and each of them had
\* fetched a page before either returned
C18_Witness ==
  /\ Len(history) = 3
  /\ overlapped
  /\ Len(history[1].fetchLog) > 1

(***************************************************************************)
(* Properties of toGraphFilter                                             *)
(***************************************************************************)

FullTextLeaves == { l \in GroupLeaves : Has(l, "subject") \/ Has(l, "exactPhrase") }

StructuralLeaves ==
  { l \in GroupLeaves :
      /\ ~hasFullTextIntent(l)
      /\ ~ThrowsOrBlank(buildQueryFilter(l))
      /\ Has(l, "from") => includes(l.from.s, <<"@">>) }

TextTermOf(leaf) == IF Has(leaf, "subject") THEN leaf.subject.s ELSE leaf.exactPhrase

\* an $and of one or more full-text leaves and one or more structural leaves
MixedAnd(q) ==
  /\ Has(q, "and")
  /\ \A i \in 1..Len(q.and) : q.and[i] \in FullTextLeaves \cup StructuralLeaves
  /\ \E i \in 1..Len(q.and) : q.and[i] \in FullTextLeaves
  /\ \E i \in 1..Len(q.and) : q.and[i] \in StructuralLeaves

\* the search half of C11: the search expression holds every text term
SearchHoldsTerms(q, plan) ==
  /\ plan # ThrownPlan
  /\ plan.search # Null
  /\ \A i \in 1..Len(q.and) :
       q.and[i] \in FullTextLeaves => includes(plan.search, TextTermOf(q.and[i]))

\* C11: for an $and of a full-text leaf (subject or exactPhrase) with
\* structural leaves (from with '@', label, categories, hasAttachment, date)
\* toGraphFilter returns a search expression containing the text term and a
\* non-null filter containing the clause of every structural leaf.
C11_SearchAndFilter ==
  (qPc = "compiled" /\ MixedAnd(qIn)) =>
    /\ SearchHoldsTerms(qIn, qOut)
    /\ qOut.filter # Null
    /\ \A i \in 1..Len(qIn.and) :
         qIn.and[i] \in StructuralLeaves =>
           includes(qOut.filter, buildQueryFilter(qIn.and[i]))

\* a leaf that sets hasAttachment and nothing else
AttachmentLeaf(q) == DOMAIN q = {"hasAttachment"}

\* the filter the remote is sent for a plan: none when the plan holds null
FilterSent(plan) == IF plan.filter = Null THEN <<>> ELSE plan.filter

\* C24: for a leaf that sets hasAttachment to a boolean b (true or false),
\* the compiled filter is the equality of hasAttachments with b, and the
\* remote returns only messages whose attachment flag equals b.
C24_AttachmentEquality ==
  (qPc = "compiled" /\ AttachmentLeaf(qIn)) =>
    /\ qOut # ThrownPlan
    /\ ~qOut.hasFullText
    /\ qOut.filter = (IF qIn.hasAttachment THEN <<"h","a","s","A","t","t","a","c","h","m","e","n","t","s"," ","e","q"," ","t","r","u","e">>
                      ELSE <<"h","a","s","A","t","t","a","c","h","m","e","n","t","s"," ","e","q"," ","f","a","l","s","e">>)
    /\ \A id \in DOMAIN Mailbox :
         FilterAccepts(FilterSent(qOut), Mailbox[id]) =>
           Mailbox[id].hasAttachments = qIn.hasAttachment

(***************************************************************************)
(* Properties of buildQueryFilter, buildClientPredicate, mapOutlookCategory*)
(***************************************************************************)

\* C12: for every query built only from server-expressible fields and every
\* message, the message satisfies the filter of buildQueryFilter (eq exact,
\* any() membership) if and only if the predicate of buildClientPredicate
\* accepts it.
C12_FilterPredicateAgree ==
  (fPc = "applied" /\ fIn.fn = "agreement") => (fOut.remote <=> fOut.predicate)

\* C13: mapOutlookCategory returns the canonical value of the key for every
\* input that, trimmed and lower-cased, is one of the six keys, and throws
\* for the empty string, a blank string and every other input.
C13_CategoryMapping ==
  (fPc = "applied" /\ fIn.fn = "mapOutlookCategory") =>
    IF toLowerCase(trim(fIn.category)) \in DOMAIN OUTLOOK_CATEGORIES
    THEN fOut.value = OUTLOOK_CATEGORIES[toLowerCase(trim(fIn.category))]
    ELSE fOut.value = ThrowStr

ClauseKeys == {"any", "all", "none"}

\* the clauses of a field operator that hold at least one term
PopulatedClauses(op) == { k \in ClauseKeys : Has(op, k) /\ Len(op[k]) > 0 }

\* a leaf of one field whose operator populates more than one clause
MultiClauseLeaf(q) ==
  /\ Cardinality(DOMAIN q) = 1
  /\ \A field \in DOMAIN q :
       /\ field \in {"from", "to", "cc", "bcc", "categories"}
       /\ ~isString(q[field])
       /\ Cardinality(PopulatedClauses(q[field])) > 1

\* the leaf with one clause of its operator only
OneClause(q, k) == [field \in DOMAIN q |-> (k :> q[field][k])]

\* C22: for a field operator that populates more than one of $any, $all and
\* $none, the client predicate accepts a message only if every populated
\* clause holds, and the filter of buildQueryFilter contains the expression
\* of every populated clause.
C22_EveryClauseConstrains ==
  (fPc = "applied" /\ fIn.fn = "agreement" /\ MultiClauseLeaf(fIn.query)) =>
    \A field \in DOMAIN fIn.query :
      \A k \in PopulatedClauses(fIn.query[field]) :
        /\ fOut.predicate => buildClientPredicate(OneClause(fIn.query, k), fIn.message)
        /\ includes(fOut.filter, buildQueryFilter(OneClause(fIn.query, k)))

\* C23: for a node that carries a logical key ($and, $or or $not) together
\* with sibling leaf fields, toGraphFilter, buildQueryFilter and
\* buildClientPredicate each give the same result as for the same node with
\* the sibling leaf fields removed.
C23_LogicalKeyWins ==
  (fPc = "applied" /\ fIn.fn = "compile" /\ DOMAIN fIn.query \cap LogicalKeys # {}) =>
    /\ fOut.plan = toGraphFilter(LogicalOnly(fIn.query))
    /\ fOut.filter = buildQueryFilter(LogicalOnly(fIn.query))
    /\ fOut.predicate = buildClientPredicate(LogicalOnly(fIn.query), fIn.message)

\* the message carries the category a term names; a term that names none of
\* the six categories is carried by no message
Carries(message, term) ==
  /\ toLowerCase(trim(term)) \in DOMAIN OUTLOOK_CATEGORIES
  /\ \E i \in 1..Len(message.categories) :
       message.categories[i] = OUTLOOK_CATEGORIES[toLowerCase(trim(term))]

\* what a categories constraint asks of a message, clause by clause
CategoriesHold(op, message) ==
  IF isString(op) THEN Carries(message, op.s)
  ELSE /\ PopulatedClauses(op) # {}
       /\ "any" \in PopulatedClauses(op) =>
            \E i \in 1..Len(op.any) : Carries(message, op.any[i])
       /\ "all" \in PopulatedClauses(op) =>
            \A i \in 1..Len(op.all) : Carries(message, op.all[i])
       /\ "none" \in PopulatedClauses(op) =>
            ~\E i \in 1..Len(op.none) : Carries(message, op.none[i])

\* C25: a categories term that is not a valid category never raises in the
\* predicate: the term matches no message, so an $any or $all clause made
\* only of such terms rejects the message and a $none clause ignores the
\* term.
C25_InvalidTermNeverMatches ==
  (fPc = "applied" /\ fIn.fn = "compile" /\ DOMAIN fIn.query = {"categories"}) =>
    /\ fOut.predicate \in BOOLEAN
    /\ fOut.predicate = CategoriesHold(fIn.query.categories, fIn.message)

\* C25 witness: a message was accepted by a $none clause that holds a term
\* that is no category, although buildQueryFilter throws for the leaf
C25_Witness ==
  /\ fPc = "applied"
  /\ fIn.fn = "compile"
  /\ DOMAIN fIn.query = {"categories"}
  /\ ~isString(fIn.query.categories)
  /\ "none" \in PopulatedClauses(fIn.query.categories)
  /\ \E i \in 1..Len(fIn.query.categories.none) :
       mapOutlookCategory(fIn.query.categories.none[i]) = ThrowStr
  /\ fOut.filter = ThrowStr
  /\ fOut.predicate
  /\ Len(fIn.message.categories) > 0

====
